---- MODULE Spec2Model ----
(***************************************************************************)
(* Vote-escrow (ve) contract of casper-ve-cep47: the checkpointed          *)
(* decay-curve accounting of ve/src/vedata.rs, the reentrancy flag of      *)
(* ve/src/lock.rs and the position registry it consumes.                   *)
(*                                                                         *)
(* All persistent stores of the contract are the fields of one record, the *)
(* store `st`.  Every function of the source is an operator from a store   *)
(* (and the call's arguments and block time) to a store, so that a handler *)
(* that calls other functions is their composition, as in the source.      *)
(***************************************************************************)
EXTENDS Integers, Sequences, FiniteSets, TLC

(***************************************************************************)
(* Program constants (vedata.rs:64-73, 79-81).                             *)
(***************************************************************************)
DEPOSIT_FOR_TYPE == 0
CREATE_LOCK_TYPE == 1
INCREASE_LOCK_AMOUNT == 2
INCREASE_UNLOCK_TIME == 3
MERGE_TYPE == 4
WEEK == 604800
MAXTIME == 15724800
\* vedata.rs:72 has 10^18; block_number - last_point.blk is always 0 because
\* current_block_number() is the constant 100, so only MULTIPLIER * 0 and
\* 0 \div MULTIPLIER are ever computed.  The value is scaled to fit TLC's
\* integers.
MULTIPLIER == 1000000000
MAX_DELEGATES == 1024
current_block_number == 100

(***************************************************************************)
(* Bounds of the model.                                                    *)
(***************************************************************************)
\* positions created in one behaviour
MaxPositions == 2
\* other successful mutating calls in one behaviour
MaxOps == 1
\* advances of the block time in one behaviour
MaxTicks == 2
\* global points in a drawn history
MaxEpochs == 4
\* delegate checkpoints of an account in a drawn history
MaxCheckpoints == 5
\* long advances of the block time in one behaviour
MaxLeaps == 3

DAY == WEEK \div 7
\* block time at installation, in the middle of a week
GenesisTime == 2 * WEEK + WEEK \div 2
\* block time advances by half a week: every second time is a week boundary
TickStep == WEEK \div 2
\* one and a half units of slope: 1 for the lock, 3 for two of them merged
BigAmount == MAXTIME + MAXTIME \div 2

Accounts == {"a1", "a2"}
Null == "null"
Keys == Accounts \cup {Null}
\* the installer, stored under TEAM by initialize
Team == "a1"
\* What the calls of one behaviour draw from: the amounts, the lock
\* durations, whether the asset contract calls back from transfer_from, and
\* the number of positions and of other successful calls.
\* Locks of one and a half units of slope for two weeks:
MainInputs ==
  [amounts |-> {0, BigAmount}, durations |-> {0, 2 * WEEK, 27 * WEEK},
   callbacks |-> FALSE, positions |-> MaxPositions, ops |-> MaxOps]
\* a lock of 1000 for 7 days:
ScenarioInputs ==
  [amounts |-> {1000}, durations |-> {7 * DAY},
   callbacks |-> FALSE, positions |-> MaxPositions - 1, ops |-> MaxOps - 1]
\* an asset contract that calls back:
ReentrantInputs ==
  [amounts |-> {0, BigAmount}, durations |-> {0, 2 * WEEK, 27 * WEEK},
   callbacks |-> TRUE, positions |-> MaxPositions - 1, ops |-> MaxOps]
\* two delegations over positions with a slope:
DelegationInputs ==
  [amounts |-> {BigAmount}, durations |-> {2 * WEEK},
   callbacks |-> FALSE, positions |-> MaxPositions, ops |-> MaxOps + 1]
\* positions with a slope, and one top-up or delegation:
QueryInputs ==
  [amounts |-> {BigAmount}, durations |-> {2 * WEEK},
   callbacks |-> FALSE, positions |-> MaxPositions, ops |-> MaxOps]
\* one position, and as many checkpoints as it takes to catch up with the time:
HorizonInputs ==
  [amounts |-> {BigAmount}, durations |-> {2 * WEEK},
   callbacks |-> FALSE, positions |-> MaxPositions - 1, ops |-> 2 * MaxLeaps]
\* locks of one and of two weeks, the first of which expires within the run:
DecayInputs ==
  [amounts |-> {BigAmount}, durations |-> {7 * DAY, 2 * WEEK},
   callbacks |-> FALSE, positions |-> MaxPositions, ops |-> MaxOps]
\* one create more than positions, around a merge:
ReuseInputs ==
  [amounts |-> {BigAmount}, durations |-> {2 * WEEK},
   callbacks |-> FALSE, positions |-> MaxPositions + 1, ops |-> MaxOps]
\* top-ups of positions that have a long history:
HistoryInputs ==
  [amounts |-> {BigAmount}, durations |-> {MAXTIME},
   callbacks |-> FALSE, positions |-> 11, ops |-> MaxOps + 1]
\* one account holding as many positions as a delegate checkpoint can list,
\* one fewer and one more:
CapacityInputs ==
  [amounts |-> {1000}, durations |-> {2 * WEEK},
   callbacks |-> FALSE, positions |-> MAX_DELEGATES + 1, ops |-> MaxOps]
\* the account of the asset contract, the immediate caller of a call made
\* from inside transfer_from
AssetContract == "a2"

VARIABLES
  now,     \* current_block_timestamp_seconds()
  st,      \* the contract's persistent stores
  pre,     \* the stores as they were when the last call began
  last,    \* the last call: entry point, arguments, outcome
  call,    \* the deploy in progress: phase and the stores to restore on revert
  inputs,  \* the amounts and durations of this behaviour's calls
  ncreates,\* positions created so far
  nops,    \* other successful mutating calls so far
  nticks   \* time advances so far

vars == <<now, st, pre, last, call, inputs, ncreates, nops, nticks>>

(***************************************************************************)
(* Dictionaries: Dict::get returns None for an absent key and the callers  *)
(* substitute a default (unwrap_or, unwrap_or_default).                    *)
(***************************************************************************)
Get(d, k, def) == IF k \in DOMAIN d THEN d[k] ELSE def

Put(d, k, v) == [x \in (DOMAIN d) \cup {k} |-> IF x = k THEN v ELSE d[x]]

Del(d, k) == [x \in (DOMAIN d) \ {k} |-> d[x]]

EmptyDict == [x \in {} |-> 0]

\* a value computed once and used under a name (a `let` of the source)
With(v, F(_)) == F(v)

\* unwrap_or_revert: the rest of the call runs on the stores a step left; a
\* step that reverted ends the call
Bind(r, F(_)) == IF r.ok THEN F(r.st) ELSE r

\* variant: a negative value is passed through
ClampZero_off(x) == x

\* if x < 0 { x = 0 }
ClampZero(x) == IF x < 0 THEN 0 ELSE x

Max(a, b) == IF a >= b THEN a ELSE b

RECURSIVE SumSeq(_)
SumSeq(q) == IF q = <<>> THEN 0 ELSE Head(q) + SumSeq(Tail(q))

RECURSIVE SumOver(_, _)
SumOver(S, f) ==
  IF S = {} THEN 0
  ELSE LET x == CHOOSE y \in S : TRUE IN f[x] + SumOver(S \ {x}, f)

\* impl Default for LockedBalance
LockedBalanceDefault == [amount |-> 0, end |-> 0]

\* impl Default for Point
PointDefault == [bias |-> 0, slope |-> 0, ts |-> 0, blk |-> 0]

\* impl Default for Checkpoint
CheckpointDefault == [timestamp |-> 0, token_ids |-> <<>>]

(***************************************************************************)
(* u64::to_string: the number of decimal digits, for the concatenated key  *)
(* of the per-position history.                                            *)
(***************************************************************************)
RECURSIVE NumDigits(_)
NumDigits(n) == IF n < 10 THEN 1 ELSE 1 + NumDigits(n \div 10)

RECURSIVE Pow10(_)
Pow10(k) == IF k = 0 THEN 1 ELSE 10 * Pow10(k - 1)

\* token_id.to_string() + &uepoch.to_string(), read back as a number
UserPointKey(token_id, uepoch) == token_id * Pow10(NumDigits(uepoch)) + uepoch

(***************************************************************************)
(* The stores after initialize (vedata.rs:232-255), escrow_init and        *)
(* dao_voting_storage_init, and lock::init.                                *)
(***************************************************************************)
initialize(ts) ==
  [ is_locked          |-> FALSE,
    point_history      |-> Put(EmptyDict, 0,
                               [bias |-> 0, slope |-> 0, ts |-> ts,
                                blk |-> current_block_number]),
    epoch              |-> 0,
    ve_supply          |-> 0,
    user_point_epoch   |-> EmptyDict,
    user_point_history |-> EmptyDict,
    locked             |-> EmptyDict,
    slope_changes      |-> EmptyDict,
    delegates          |-> EmptyDict,
    checkpoints        |-> EmptyDict,
    num_checkpoints    |-> EmptyDict,
    owners             |-> EmptyDict,
    owned_tokens       |-> [a \in Accounts |-> <<>>],
    nft_total_supply   |-> 0,
    custody            |-> 0 ]

get_locked_balance(s, token_id) == Get(s.locked, token_id, LockedBalanceDefault)

\* variant: no delta is ever read back from the schedule
get_slope_changes_none(s, time) == 0

get_slope_changes(s, time) == Get(s.slope_changes, time, 0)

\* variant: the schedule is never written
save_slope_changes_skipped(s, time, val) == s

save_slope_changes(s, time, val) ==
  [s EXCEPT !.slope_changes = Put(s.slope_changes, time, val)]

get_user_point(s, token_id, uepoch) ==
  Get(s.user_point_history, UserPointKey(token_id, uepoch), PointDefault)

get_point(s, uepoch) == Get(s.point_history, uepoch, PointDefault)

(***************************************************************************)
(* Checkpoint engine, vedata.rs:361-498.                                   *)
(***************************************************************************)
\* variant: the slope rounded up to the next whole unit
LockPoint_rounded_up(lk, ts) ==
  IF lk.end > ts /\ lk.amount > 0
  THEN [bias |-> ((lk.amount + MAXTIME - 1) \div MAXTIME) * (lk.end - ts),
        slope |-> (lk.amount + MAXTIME - 1) \div MAXTIME, ts |-> 0, blk |-> 0]
  ELSE PointDefault

\* lines 370-379: the projection of a lock, slope = amount / MAXTIME and
\* bias = slope * (end - ts); zero for an expired or empty lock
LockPoint(lk, ts) ==
  IF lk.end > ts /\ lk.amount > 0
  THEN [bias |-> (lk.amount \div MAXTIME) * (lk.end - ts),
        slope |-> lk.amount \div MAXTIME, ts |-> 0, blk |-> 0]
  ELSE PointDefault

\* variant: a pass stores its point at the index it started from
ReplayStep_stores_at_old_index(s, acc, initial_last_point, block_slope, ts) ==
  With(IF acc.t_i + WEEK > ts THEN ts ELSE acc.t_i + WEEK, LAMBDA t_i :
  With([bias |-> ClampZero(acc.last_point.bias
                             - acc.last_point.slope * (t_i - acc.last_checkpoint)),
        slope |-> ClampZero(acc.last_point.slope
                              + (IF acc.t_i + WEEK > ts THEN 0
                                 ELSE get_slope_changes(s, t_i))),
        ts |-> t_i,
        blk |-> IF t_i = ts THEN current_block_number
                ELSE initial_last_point.blk
                       + (block_slope * (t_i - initial_last_point.ts))
                           \div MULTIPLIER], LAMBDA lp :
    [last_point |-> lp, last_checkpoint |-> t_i, t_i |-> t_i,
     epoch |-> acc.epoch + 1,
     hist |-> IF t_i = ts THEN acc.hist ELSE Put(acc.hist, acc.epoch, lp),
     done |-> (t_i = ts)]))

\* variant: the pass that reaches ts does not count as an epoch
ReplayStep_last_pass_uncounted(s, acc, initial_last_point, block_slope, ts) ==
  With(IF acc.t_i + WEEK > ts THEN ts ELSE acc.t_i + WEEK, LAMBDA t_i :
  With([bias |-> ClampZero(acc.last_point.bias
                             - acc.last_point.slope * (t_i - acc.last_checkpoint)),
        slope |-> ClampZero(acc.last_point.slope
                              + (IF acc.t_i + WEEK > ts THEN 0
                                 ELSE get_slope_changes(s, t_i))),
        ts |-> t_i,
        blk |-> IF t_i = ts THEN current_block_number
                ELSE initial_last_point.blk
                       + (block_slope * (t_i - initial_last_point.ts))
                           \div MULTIPLIER], LAMBDA lp :
    [last_point |-> lp, last_checkpoint |-> t_i, t_i |-> t_i,
     epoch |-> IF t_i = ts THEN acc.epoch ELSE acc.epoch + 1,
     hist |-> IF t_i = ts THEN acc.hist ELSE Put(acc.hist, acc.epoch + 1, lp),
     done |-> (t_i = ts)]))

\* lines 416-451: one pass of the weekly loop.  acc holds last_point,
\* last_checkpoint, t_i, _epoch, the point history and whether the loop broke.
ReplayStep(s, acc, initial_last_point, block_slope, ts) ==
  With(IF acc.t_i + WEEK > ts THEN ts ELSE acc.t_i + WEEK, LAMBDA t_i :
  With([bias |-> ClampZero(acc.last_point.bias
                             - acc.last_point.slope * (t_i - acc.last_checkpoint)),
        slope |-> ClampZero(acc.last_point.slope
                              + (IF acc.t_i + WEEK > ts THEN 0
                                 ELSE get_slope_changes(s, t_i))),
        ts |-> t_i,
        blk |-> IF t_i = ts THEN current_block_number
                ELSE initial_last_point.blk
                       + (block_slope * (t_i - initial_last_point.ts))
                           \div MULTIPLIER], LAMBDA lp :
    [last_point |-> lp, last_checkpoint |-> t_i, t_i |-> t_i,
     epoch |-> acc.epoch + 1,
     hist |-> IF t_i = ts THEN acc.hist ELSE Put(acc.hist, acc.epoch + 1, lp),
     done |-> (t_i = ts)]))

\* n passes of the loop, or fewer if it breaks.  The first half of the passes
\* is run before the second half is looked at.
RECURSIVE ReplayPasses(_, _, _, _, _, _)
ReplayPasses(s, acc, initial_last_point, block_slope, ts, n) ==
  IF acc.done \/ n = 0 THEN acc
  ELSE IF n = 1 THEN ReplayStep(s, acc, initial_last_point, block_slope, ts)
  ELSE With(ReplayPasses(s, acc, initial_last_point, block_slope, ts, n \div 2),
            LAMBDA half :
         IF half.done THEN half
         ELSE ReplayPasses(s, half, initial_last_point, block_slope, ts,
                           n - n \div 2))

\* variant: a loop of 1024 passes
WeeklyReplay_long(s, acc, initial_last_point, block_slope, ts) ==
  ReplayPasses(s, acc, initial_last_point, block_slope, ts, 1024)

\* for _i in 0..255 (line 415)
WeeklyReplay(s, acc, initial_last_point, block_slope, ts) ==
  ReplayPasses(s, acc, initial_last_point, block_slope, ts, 255)

_check_point(s, token_id, old_locked, new_locked, ts) ==
  With(IF token_id # 0 THEN LockPoint(old_locked, ts) ELSE PointDefault,
       LAMBDA u_old :
  With(IF token_id # 0 THEN LockPoint(new_locked, ts) ELSE PointDefault,
       LAMBDA u_new :
  With(IF token_id # 0 THEN get_slope_changes(s, old_locked.end) ELSE 0,
       LAMBDA old_dslope :
  With(IF token_id # 0 /\ new_locked.end # 0
       THEN IF new_locked.end = old_locked.end THEN old_dslope
            ELSE get_slope_changes(s, new_locked.end)
       ELSE 0,
       LAMBDA new_dslope :
  With(IF s.epoch > 0 THEN get_point(s, s.epoch)
       ELSE [bias |-> 0, slope |-> 0, ts |-> ts, blk |-> current_block_number],
       LAMBDA last_point0 :
  \* lines 405-451: the replay from the last global point up to ts
  With(WeeklyReplay(s,
         [last_point |-> last_point0, last_checkpoint |-> last_point0.ts,
          t_i |-> (last_point0.ts \div WEEK) * WEEK, epoch |-> s.epoch,
          hist |-> s.point_history, done |-> FALSE],
         last_point0,
         IF ts > last_point0.ts
         THEN (MULTIPLIER * (current_block_number - last_point0.blk))
                \div (ts - last_point0.ts)
         ELSE 0,
         ts),
       LAMBDA acc :
  \* lines 456-468: the position's change folded into the last point
  With(IF token_id # 0
       THEN [acc.last_point EXCEPT
               !.slope = ClampZero(acc.last_point.slope + u_new.slope - u_old.slope),
               !.bias = ClampZero(acc.last_point.bias + u_new.bias - u_old.bias)]
       ELSE acc.last_point,
       LAMBDA last_point :
  With([s EXCEPT !.epoch = acc.epoch,
                 !.point_history = Put(acc.hist, acc.epoch, last_point)],
       LAMBDA s1 :
  \* lines 470-485: the schedule
  With(IF old_locked.end > ts
       THEN save_slope_changes(s1, old_locked.end,
              IF new_locked.end = old_locked.end
              THEN old_dslope + u_old.slope - u_new.slope
              ELSE old_dslope + u_old.slope)
       ELSE s1,
       LAMBDA s2 :
  With(IF new_locked.end > ts /\ new_locked.end > old_locked.end
       THEN save_slope_changes(s2, new_locked.end, new_dslope - u_new.slope)
       ELSE s2,
       LAMBDA s3 :
  \* lines 487-496: the position's history
  With(Get(s.user_point_epoch, token_id, 0) + 1, LAMBDA user_epoch :
    IF token_id # 0
    THEN [s3 EXCEPT
            !.user_point_epoch = Put(s3.user_point_epoch, token_id, user_epoch),
            !.user_point_history =
               Put(s3.user_point_history, UserPointKey(token_id, user_epoch),
                   [bias |-> u_new.bias, slope |-> u_new.slope, ts |-> ts,
                    blk |-> current_block_number])]
    ELSE s1)))))))))))

(***************************************************************************)
(* Queries, vedata.rs:736-751 and 875-905.                                 *)
(***************************************************************************)
\* variant: the projected bias returned without the clamp at zero
_balance_of_nft_unclamped(s, token_id, t) ==
  With(Get(s.user_point_epoch, token_id, 0), LAMBDA _epoch :
    IF _epoch = 0 THEN 0
    ELSE With(get_user_point(s, token_id, _epoch), LAMBDA last_point :
           last_point.bias - last_point.slope * (t - last_point.ts)))

_balance_of_nft(s, token_id, t) ==
  With(Get(s.user_point_epoch, token_id, 0), LAMBDA _epoch :
    IF _epoch = 0 THEN 0
    ELSE With(get_user_point(s, token_id, _epoch), LAMBDA last_point :
           ClampZero(last_point.bias - last_point.slope * (t - last_point.ts))))

\* lines 878-893: acc holds last_point, t_i and whether the loop broke
RECURSIVE SupplyReplay(_, _, _, _)
SupplyReplay(s, acc, t, i) ==
  IF i = 255 \/ acc.done THEN acc
  ELSE With(IF acc.t_i + WEEK > t THEN t ELSE acc.t_i + WEEK, LAMBDA t_i :
       With(acc.last_point.bias
              - acc.last_point.slope * (t_i - acc.last_point.ts), LAMBDA bias :
         SupplyReplay(s,
           IF t_i = t
           THEN [last_point |-> [acc.last_point EXCEPT !.bias = bias],
                 t_i |-> t_i, done |-> TRUE]
           ELSE [last_point |-> [acc.last_point EXCEPT
                                   !.bias = bias,
                                   !.slope = acc.last_point.slope
                                               + (IF acc.t_i + WEEK > t THEN 0
                                                  ELSE get_slope_changes(s, t_i)),
                                   !.ts = acc.last_point.ts + t_i],
                 t_i |-> t_i, done |-> FALSE],
           t, i + 1)))

_supply_at(s, point, t) ==
  ClampZero(SupplyReplay(s, [last_point |-> point,
                             t_i |-> (point.ts \div WEEK) * WEEK,
                             done |-> FALSE], t, 0).last_point.bias)

_total_supply_at_t(s, t) == _supply_at(s, get_point(s, s.epoch), t)

(***************************************************************************)
(* Binary search over the global history, vedata.rs:712-729.               *)
(***************************************************************************)
\* variant: an epoch is taken only when its block is strictly below _block
RECURSIVE BlockSearch_strict(_, _, _, _, _)
BlockSearch_strict(s, _block, _min, _max, i) ==
  IF i = 128 \/ _min >= _max THEN _min
  ELSE With((_min + _max + 1) \div 2, LAMBDA _mid :
         IF get_point(s, _mid).blk < _block
         THEN BlockSearch_strict(s, _block, _mid, _max, i + 1)
         ELSE BlockSearch_strict(s, _block, _min, _mid - 1, i + 1))

\* the loop of lines 716-727, i counting its iterations
RECURSIVE BlockSearch(_, _, _, _, _)
BlockSearch(s, _block, _min, _max, i) ==
  IF i = 128 \/ _min >= _max THEN _min
  ELSE With((_min + _max + 1) \div 2, LAMBDA _mid :
         IF get_point(s, _mid).blk <= _block
         THEN BlockSearch(s, _block, _mid, _max, i + 1)
         ELSE BlockSearch(s, _block, _min, _mid - 1, i + 1))

_find_block_epoch(s, _block, max_epoch) == BlockSearch(s, _block, 0, max_epoch, 0)

(***************************************************************************)
(* Outcome of a function that can revert (utils::require, unwrap_or_revert)*)
(* : the stores it leaves and the amount it asks the asset contract to     *)
(* transfer, or the error.                                                 *)
(***************************************************************************)
Ok(s, x) == [ok |-> TRUE, err |-> "", st |-> s, xfer |-> x]

Err(s, e) == [ok |-> FALSE, err |-> e, st |-> s, xfer |-> 0]

\* runtime::ret of a query: the value returned and the stores as the entry
\* point leaves them
Returns(s, v) == [ok |-> TRUE, err |-> "", st |-> s, xfer |-> 0, result |-> v]

(***************************************************************************)
(* Query entry points, vedata.rs:326-355, 753-869 and 907-921.             *)
(***************************************************************************)
get_last_user_slope(s, token_id) ==
  Returns(s, get_user_point(s, token_id, Get(s.user_point_epoch, token_id, 0)).slope)

locked_end(s, token_id) == Returns(s, get_locked_balance(s, token_id).end)

balance_of_nft(s, token_id, ts) == Returns(s, _balance_of_nft(s, token_id, ts))

balance_of_nft_at(s, token_id, epoch_time) ==
  Returns(s, _balance_of_nft(s, token_id, epoch_time))

\* the loop of lines 788-799 over the points of one position
RECURSIVE UserBlockSearch(_, _, _, _, _, _)
UserBlockSearch(s, token_id, block, _min, _max, i) ==
  IF i = 128 \/ _min >= _max THEN _min
  ELSE With((_min + _max + 1) \div 2, LAMBDA _mid :
         IF get_user_point(s, token_id, _mid).blk <= block
         THEN UserBlockSearch(s, token_id, block, _mid, _max, i + 1)
         ELSE UserBlockSearch(s, token_id, block, _min, _mid - 1, i + 1))

\* lines 780-828
_balance_of_at_nft(s, token_id, block, ts) ==
  IF ~(block <= current_block_number) THEN Err(s, "InvalidBlock")
  ELSE
  With(get_user_point(s, token_id,
         UserBlockSearch(s, token_id, block, 0,
                         Get(s.user_point_epoch, token_id, 0), 0)), LAMBDA upoint :
  With(_find_block_epoch(s, block, s.epoch), LAMBDA _epoch :
  With(get_point(s, _epoch), LAMBDA point_0 :
  With(IF _epoch < s.epoch
       THEN [d_block |-> get_point(s, _epoch + 1).blk - point_0.blk,
             d_t |-> get_point(s, _epoch + 1).ts - point_0.ts]
       ELSE [d_block |-> current_block_number - point_0.blk,
             d_t |-> ts - point_0.ts], LAMBDA d :
  With(IF d.d_block # 0
       THEN point_0.ts + (d.d_t * (block - point_0.blk)) \div d.d_block
       ELSE point_0.ts, LAMBDA block_time :
    Returns(s, ClampZero(upoint.bias - upoint.slope * (block_time - upoint.ts))))))))

balance_of_at_nft(s, token_id, block, ts) == _balance_of_at_nft(s, token_id, block, ts)

\* lines 843-869
total_supply_at(s, block, ts) ==
  IF ~(block <= current_block_number) THEN Err(s, "InvalidBlock")
  ELSE
  With(_find_block_epoch(s, block, s.epoch), LAMBDA target_epoch :
  With(get_point(s, target_epoch), LAMBDA point :
  With(IF target_epoch < s.epoch
       THEN With(get_point(s, target_epoch + 1), LAMBDA point_next :
              IF point.blk # point_next.blk
              THEN ((block - point.blk) * (point_next.ts - point.ts))
                     \div (point_next.blk - point.blk)
              ELSE 0)
       ELSE IF point.blk # current_block_number
            THEN ((block - point.blk) * (ts - point.ts))
                   \div (current_block_number - point.blk)
            ELSE 0, LAMBDA dt :
    Returns(s, _supply_at(s, point, point.ts + dt)))))

\* variant: a total-supply query that first records a global point
ve_total_supply_checkpointing(s, ts) ==
  With(_check_point(s, 0, LockedBalanceDefault, LockedBalanceDefault, ts),
       LAMBDA s1 : Returns(s1, _total_supply_at_t(s1, ts)))

ve_total_supply(s, ts) == Returns(s, _total_supply_at_t(s, ts))

total_supply_at_t(s, t) == Returns(s, _total_supply_at_t(s, t))

(***************************************************************************)
(* Position registry (NFTToken).  Owners, OwnedTokens and the total supply *)
(* are written by mint_many and burn_many, cep47_storage.rs:60-135.        *)
(***************************************************************************)
owner_of(s, token_id) == Get(s.owners, token_id, Null)

balance_of(s, owner) == Len(s.owned_tokens[owner])

get_token_by_index(s, owner, i) == s.owned_tokens[owner][i + 1]

is_approved_or_owner(s, token_id, caller) ==
  caller # Null /\ owner_of(s, token_id) = caller

validate_token_ids(s, token_id) == owner_of(s, token_id) = Null

mint_many(s, recipient, token_id) ==
  [s EXCEPT !.owners = Put(s.owners, token_id, recipient),
            !.owned_tokens[recipient] = Append(@, token_id),
            !.nft_total_supply = @ + 1]

mint(s, recipient, token_id) ==
  IF validate_token_ids(s, token_id)
  THEN Ok(mint_many(s, recipient, token_id), 0)
  ELSE Err(s, "TokenIdAlreadyExists")

burn_many(s, owner, token_id) ==
  [s EXCEPT !.owners = Del(s.owners, token_id),
            !.owned_tokens[owner] = SelectSeq(@, LAMBDA id : id # token_id),
            !.nft_total_supply = @ - 1]

(***************************************************************************)
(* Delegate checkpoint store, vedata.rs:1031-1103.                         *)
(***************************************************************************)
get_delegate(s, a) == Get(s.delegates, a, Null)

set_delegate(s, a, d) == [s EXCEPT !.delegates = Put(s.delegates, a, d)]

\* the key is blake2b(account ++ index): one key per pair
get_check_point(s, a, index) == Get(s.checkpoints, <<a, index>>, CheckpointDefault)

set_check_point(s, a, index, cp) ==
  [s EXCEPT !.checkpoints = Put(s.checkpoints, <<a, index>>, cp)]

get_num_checkpoints(s, a) == Get(s.num_checkpoints, a, 0)

set_num_checkpoints(s, a, n) ==
  [s EXCEPT !.num_checkpoints = Put(s.num_checkpoints, a, n)]

_delegates(s, delegator) ==
  IF get_delegate(s, delegator) = Null THEN delegator
  ELSE get_delegate(s, delegator)

\* the delegates entry point, lines 1105-1109: it returns its argument
delegates(s, delegator) == delegator

\* the most recent checkpoint as the move functions read it (lines 1202-1207)
LatestCheckpoint(s, a) ==
  With(get_num_checkpoints(s, a), LAMBDA n :
    IF n > 0 THEN get_check_point(s, a, n - 1) ELSE get_check_point(s, a, 0))

_find_what_checkpoint_to_write(s, account, ts) ==
  With(get_num_checkpoints(s, account), LAMBDA n_checkpoints :
    IF n_checkpoints > 0
       /\ get_check_point(s, account, n_checkpoints - 1).timestamp = ts
    THEN n_checkpoints - 1
    ELSE n_checkpoints)

\* lines 1201-1219 and 1221-1241: one side of a move of one position id
MoveTokenSide(s, a, token_id, ts) ==
  With(_find_what_checkpoint_to_write(s, a, ts), LAMBDA next_rep_num :
    set_num_checkpoints(
      set_check_point(s, a, next_rep_num,
        [get_check_point(s, a, next_rep_num) EXCEPT
           !.token_ids = @ \o SelectSeq(LatestCheckpoint(s, a).token_ids,
                                        LAMBDA id : id # token_id)]),
      a, get_num_checkpoints(s, a) + 1))

_move_token_delegates(s, src, dst, token_id, ts) ==
  IF src # dst /\ token_id > 0
  THEN With(IF src # Null THEN MoveTokenSide(s, src, token_id, ts) ELSE s,
            LAMBDA s1 :
         IF dst # Null
         THEN IF Len(LatestCheckpoint(s1, dst).token_ids) + 1 <= MAX_DELEGATES
              THEN Ok(MoveTokenSide(s1, dst, token_id, ts), 0)
              ELSE Err(s, "TooManyTokenIds")
         ELSE Ok(s1, 0))
  ELSE Ok(s, 0)

\* variant: the source keeps every position id it listed
MoveAllSrc_keeps_all(s, owner, src, ts) ==
  With(LatestCheckpoint(s, src), LAMBDA src_rep_old :
  With(_find_what_checkpoint_to_write(s, src, ts), LAMBDA next_src_rep_num :
    IF \E i \in 1..Len(src_rep_old.token_ids) :
          owner_of(s, src_rep_old.token_ids[i]) = Null
    THEN Err(s, "Panic")
    ELSE Ok(set_num_checkpoints(
              set_check_point(s, src, next_src_rep_num,
                [get_check_point(s, src, next_src_rep_num) EXCEPT
                   !.token_ids = @ \o src_rep_old.token_ids]),
              src, get_num_checkpoints(s, src) + 1), 0)))

\* lines 1259-1277: the source side of a move of everything an owner holds
MoveAllSrc(s, owner, src, ts) ==
  With(LatestCheckpoint(s, src), LAMBDA src_rep_old :
  With(_find_what_checkpoint_to_write(s, src, ts), LAMBDA next_src_rep_num :
    \* owner_of(tid).unwrap() panics on a burned id
    IF \E i \in 1..Len(src_rep_old.token_ids) :
          owner_of(s, src_rep_old.token_ids[i]) = Null
    THEN Err(s, "Panic")
    ELSE Ok(set_num_checkpoints(
              set_check_point(s, src, next_src_rep_num,
                [get_check_point(s, src, next_src_rep_num) EXCEPT
                   !.token_ids = @ \o SelectSeq(src_rep_old.token_ids,
                                    LAMBDA tid : owner_of(s, tid) # owner)]),
              src, get_num_checkpoints(s, src) + 1), 0)))

\* variant: the destination side without the capacity test
MoveAllDst_unbounded(s, owner, dst, ts) ==
  With(LatestCheckpoint(s, dst), LAMBDA dst_rep_old :
  With(_find_what_checkpoint_to_write(s, dst, ts), LAMBDA next_dst_rep_num :
  With(balance_of(s, owner), LAMBDA owner_token_count :
    Ok(set_num_checkpoints(
         set_check_point(s, dst, next_dst_rep_num,
           [get_check_point(s, dst, next_dst_rep_num) EXCEPT
              !.token_ids = (@ \o dst_rep_old.token_ids)
                              \o [i \in 1..owner_token_count |->
                                   get_token_by_index(s, owner, i - 1)]]),
         dst, get_num_checkpoints(s, dst) + 1), 0))))

\* lines 1279-1300: the destination side
MoveAllDst(s, owner, dst, ts) ==
  With(LatestCheckpoint(s, dst), LAMBDA dst_rep_old :
  With(_find_what_checkpoint_to_write(s, dst, ts), LAMBDA next_dst_rep_num :
  With(balance_of(s, owner), LAMBDA owner_token_count :
    IF Len(dst_rep_old.token_ids) + owner_token_count <= MAX_DELEGATES
    THEN Ok(set_num_checkpoints(
              set_check_point(s, dst, next_dst_rep_num,
                [get_check_point(s, dst, next_dst_rep_num) EXCEPT
                   !.token_ids = (@ \o dst_rep_old.token_ids)
                                   \o [i \in 1..owner_token_count |->
                                        get_token_by_index(s, owner, i - 1)]]),
              dst, get_num_checkpoints(s, dst) + 1), 0)
    ELSE Err(s, "TooManyTokenIds"))))

_move_all_delegates(s, owner, src, dst, ts) ==
  IF src # dst
  THEN Bind(IF src # Null THEN MoveAllSrc(s, owner, src, ts) ELSE Ok(s, 0),
            LAMBDA s1 :
         IF dst # Null THEN MoveAllDst(s1, owner, dst, ts) ELSE Ok(s1, 0))
  ELSE Ok(s, 0)

_delegate(s, delegator, delegatee, ts) ==
  _move_all_delegates(set_delegate(s, delegator, delegatee), delegator,
                      get_delegate(s, delegator), delegatee, ts)

\* lines 1116-1133
get_votes(s, account, ts) ==
  With(get_num_checkpoints(s, account), LAMBDA n_checkpoints :
    IF n_checkpoints = 0 THEN 0
    ELSE With(get_check_point(s, account, n_checkpoints).token_ids,
              LAMBDA _token_ids :
           SumSeq([i \in 1..Len(_token_ids) |->
                     _balance_of_nft(s, _token_ids[i], ts)])))

\* variant: the most recent checkpoint, whatever its timestamp
_get_past_votes_index_latest(s, account, timestamp) ==
  With(get_num_checkpoints(s, account), LAMBDA n_checkpoints :
    IF n_checkpoints = 0 THEN 0 ELSE n_checkpoints - 1)

\* the while loop of lines 1147-1158
RECURSIVE VotesSearch(_, _, _, _, _)
VotesSearch(s, account, timestamp, lower, upper) ==
  IF ~(upper > lower) THEN lower
  ELSE With(upper - (upper - lower) \div 2, LAMBDA center :
       With(get_check_point(s, account, center), LAMBDA cp :
         IF cp.timestamp = timestamp THEN center
         ELSE IF cp.timestamp < timestamp
         THEN VotesSearch(s, account, timestamp, center, upper)
         ELSE VotesSearch(s, account, timestamp, lower, upper - 1)))

\* lines 1135-1163
_get_past_votes_index(s, account, timestamp) ==
  With(get_num_checkpoints(s, account), LAMBDA n_checkpoints :
    IF n_checkpoints = 0 THEN 0
    ELSE IF get_check_point(s, account, n_checkpoints - 1).timestamp <= timestamp
    THEN n_checkpoints - 1
    ELSE IF get_check_point(s, account, 0).timestamp > timestamp THEN 0
    ELSE VotesSearch(s, account, timestamp, 0, n_checkpoints - 1))

\* lines 1174-1186
get_past_votes(s, account, timestamp) ==
  With(get_check_point(s, account,
                       _get_past_votes_index(s, account, timestamp)).token_ids,
       LAMBDA _token_ids :
    SumSeq([i \in 1..Len(_token_ids) |->
              _balance_of_nft(s, _token_ids[i], timestamp)]))

(***************************************************************************)
(* Reentrancy flag, lock.rs:5-16.                                          *)
(***************************************************************************)
\* variant: a guard that never rejects
when_not_locked_always(s) == TRUE

when_not_locked(s) == ~s.is_locked

lock_contract(s) == [s EXCEPT !.is_locked = TRUE]

\* variant: the flag left as it is
unlock_contract_skipped(s) == s

\* lock.rs:14-16
unlock_contract(s) == [s EXCEPT !.is_locked = FALSE]

(***************************************************************************)
(* Deposit and lock lifecycle, vedata.rs:506-700 and 988-1018.  Each       *)
(* function returns the stores as they are when it reaches the external    *)
(* transfer_from (xfer > 0) or its end (xfer = 0).                         *)
(***************************************************************************)
\* variant: transfer_from is reached before the checkpoint is taken
_deposit_for_transfer_first(s, token_id, value, unlock_time, locked_balance, deposit_type, ts) ==
  With([amount |-> locked_balance.amount + value,
        end |-> IF unlock_time # 0 THEN unlock_time ELSE locked_balance.end],
       LAMBDA __locked :
    IF value # 0 /\ deposit_type # MERGE_TYPE
    THEN Ok([s EXCEPT !.ve_supply = @ + value,
                      !.locked = Put(s.locked, token_id, __locked)], value)
    ELSE Ok(_check_point([s EXCEPT !.ve_supply = @ + value,
                                   !.locked = Put(s.locked, token_id, __locked)],
                         token_id, locked_balance, __locked, ts), 0))

_deposit_for(s, token_id, value, unlock_time, locked_balance, deposit_type, ts) ==
  With([amount |-> locked_balance.amount + value,
        end |-> IF unlock_time # 0 THEN unlock_time ELSE locked_balance.end],
       LAMBDA __locked :
    Ok(_check_point([s EXCEPT !.ve_supply = @ + value,
                              !.locked = Put(s.locked, token_id, __locked)],
                    token_id, locked_balance, __locked, ts),
       IF value # 0 /\ deposit_type # MERGE_TYPE THEN value ELSE 0))

check_point(s, ts) ==
  Ok(_check_point(s, 0, LockedBalanceDefault, LockedBalanceDefault, ts), 0)

\* variant: a deposit accepted for a position that holds no lock
deposit_for_no_lock_check(s, token_id, amount, ts) ==
  With(get_locked_balance(s, token_id), LAMBDA locked_balance :
    IF ~(amount > 0) THEN Err(s, "InvalidAmount")
    ELSE IF ~(locked_balance.end > ts) /\ locked_balance.amount > 0
    THEN Err(s, "CannotAddToExpiredLock")
    ELSE _deposit_for(s, token_id, amount, 0, locked_balance,
                      DEPOSIT_FOR_TYPE, ts))

\* vedata.rs:550-565
deposit_for(s, token_id, amount, ts) ==
  With(get_locked_balance(s, token_id), LAMBDA locked_balance :
    IF ~(amount > 0) THEN Err(s, "InvalidAmount")
    ELSE IF ~(locked_balance.amount > 0) THEN Err(s, "NoExistingLock")
    ELSE IF ~(locked_balance.end > ts) THEN Err(s, "CannotAddToExpiredLock")
    ELSE _deposit_for(s, token_id, amount, 0, locked_balance,
                      DEPOSIT_FOR_TYPE, ts))

\* variant: the unlock time left unrounded
RoundToWeek_unrounded(t) == t

\* line 569: (ts + lock_duration) / WEEK * WEEK
RoundToWeek(t) == (t \div WEEK) * WEEK

_create_lock(s, value, lock_duration, to, ts) ==
  With(RoundToWeek(ts + lock_duration), LAMBDA unlock_time :
  With(s.nft_total_supply + 1, LAMBDA token_id :
    IF ~(value > 0) THEN Err(s, "InvalidAmount")
    ELSE IF ~(unlock_time > ts) THEN Err(s, "CanOnlyLockTillTimeInFuture")
    ELSE IF ~(unlock_time <= ts + MAXTIME) THEN Err(s, "VotingLockMax26Weeks")
    ELSE Bind(mint(s, to, token_id), LAMBDA s1 :
         Bind(_move_token_delegates(s1, Null, _delegates(s1, to), token_id, ts),
              LAMBDA s2 :
           _deposit_for(s2, token_id, value, unlock_time,
                        get_locked_balance(s2, token_id), CREATE_LOCK_TYPE, ts)))))

create_lock(s, caller, amount, lock_duration, ts) ==
  IF ~when_not_locked(s) THEN Err(s, "ContractLocked")
  ELSE _create_lock(lock_contract(s), amount, lock_duration, caller, ts)

create_lock_for(s, to, amount, lock_duration, ts) ==
  IF ~when_not_locked(s) THEN Err(s, "ContractLocked")
  ELSE _create_lock(lock_contract(s), amount, lock_duration, to, ts)

increase_amount(s, caller, token_id, amount, ts) ==
  With(get_locked_balance(s, token_id), LAMBDA __locked :
    IF ~is_approved_or_owner(s, token_id, caller)
    THEN Err(s, "NotOwnerOrApproved")
    ELSE IF ~when_not_locked(s) THEN Err(s, "ContractLocked")
    ELSE IF ~(amount > 0) THEN Err(s, "InvalidAmount")
    ELSE IF ~(__locked.amount > 0) THEN Err(s, "NoExistingLock")
    ELSE IF ~(__locked.end > ts) THEN Err(s, "CannotAddToExpiredLock")
    ELSE _deposit_for(lock_contract(s), token_id, amount, 0, __locked,
                      INCREASE_LOCK_AMOUNT, ts))

\* variant: an unlock time accepted that does not exceed the current end
increase_unlock_time_not_greater(s, caller, token_id, lock_duration, ts) ==
  With(get_locked_balance(s, token_id), LAMBDA __locked :
  With(RoundToWeek(ts + lock_duration), LAMBDA unlock_time :
    IF ~is_approved_or_owner(s, token_id, caller)
    THEN Err(s, "NotOwnerOrApproved")
    ELSE IF ~when_not_locked(s) THEN Err(s, "ContractLocked")
    ELSE IF ~(__locked.end > ts) THEN Err(s, "CannotAddToExpiredLock")
    ELSE IF ~(__locked.amount > 0) THEN Err(s, "NoExistingLock")
    ELSE IF ~(unlock_time <= ts + MAXTIME) THEN Err(s, "VotingLockMax26Weeks")
    ELSE _deposit_for(lock_contract(s), token_id, 0, unlock_time, __locked,
                      INCREASE_UNLOCK_TIME, ts)))

\* vedata.rs:658-686
increase_unlock_time(s, caller, token_id, lock_duration, ts) ==
  With(get_locked_balance(s, token_id), LAMBDA __locked :
  With(RoundToWeek(ts + lock_duration), LAMBDA unlock_time :
    IF ~is_approved_or_owner(s, token_id, caller)
    THEN Err(s, "NotOwnerOrApproved")
    ELSE IF ~when_not_locked(s) THEN Err(s, "ContractLocked")
    ELSE IF ~(__locked.end > ts) THEN Err(s, "CannotAddToExpiredLock")
    ELSE IF ~(__locked.amount > 0) THEN Err(s, "NoExistingLock")
    ELSE IF ~(unlock_time > __locked.end) THEN Err(s, "CanOnlyIncreaseLock")
    ELSE IF ~(unlock_time <= ts + MAXTIME) THEN Err(s, "VotingLockMax26Weeks")
    ELSE _deposit_for(lock_contract(s), token_id, 0, unlock_time, __locked,
                      INCREASE_UNLOCK_TIME, ts)))

increase_amount_for(s, caller, token_id, amount, ts) ==
  With(get_locked_balance(s, token_id), LAMBDA locked :
    IF caller # Team THEN Err(s, "NOTTEAM")
    ELSE IF ~(amount > 0) THEN Err(s, "InvalidAmount")
    ELSE IF ~(locked.amount > 0) THEN Err(s, "NoExistingLock")
    ELSE IF ~(locked.end > ts) THEN Err(s, "CannotAddToExpiredLock")
    ELSE _deposit_for(s, token_id, amount, 0, locked, INCREASE_LOCK_AMOUNT, ts))

_burn_nft(s, caller, token_id, ts) ==
  IF ~is_approved_or_owner(s, token_id, caller)
  THEN Err(s, "NotOwnerOrApproved")
  ELSE With(owner_of(s, token_id), LAMBDA owner :
       Bind(_move_token_delegates(burn_many(s, owner, token_id), owner, Null,
                                  token_id, ts),
            LAMBDA s2 :
         _move_token_delegates(s2, _delegates(s2, owner), Null, token_id, ts)))

\* variant: the earlier of the two ends kept
merge_earlier_end(s, caller, from, to, ts) ==
  IF ~(from # to) THEN Err(s, "FromMustNotTo")
  ELSE IF ~is_approved_or_owner(s, from, caller)
  THEN Err(s, "NotOwnerOrApproved")
  ELSE IF ~is_approved_or_owner(s, to, caller)
  THEN Err(s, "NotOwnerOrApproved")
  ELSE With(get_locked_balance(s, from), LAMBDA locked0 :
       With(get_locked_balance(s, to), LAMBDA locked1 :
       Bind(_burn_nft(_check_point([s EXCEPT !.locked = Put(s.locked, from, LockedBalanceDefault)],
                            from, locked0, LockedBalanceDefault, ts),
                      caller, from, ts),
            LAMBDA s3 :
         _deposit_for(s3, to, locked0.amount,
                      IF locked0.end >= locked1.end THEN locked1.end
                      ELSE locked0.end,
                      locked1, MERGE_TYPE, ts))))

\* variant: the source position not checkpointed to zero
merge_no_from_checkpoint(s, caller, from, to, ts) ==
  IF ~(from # to) THEN Err(s, "FromMustNotTo")
  ELSE IF ~is_approved_or_owner(s, from, caller)
  THEN Err(s, "NotOwnerOrApproved")
  ELSE IF ~is_approved_or_owner(s, to, caller)
  THEN Err(s, "NotOwnerOrApproved")
  ELSE With(get_locked_balance(s, from), LAMBDA locked0 :
       With(get_locked_balance(s, to), LAMBDA locked1 :
       Bind(_burn_nft([s EXCEPT !.locked = Put(s.locked, from, LockedBalanceDefault)],
                      caller, from, ts),
            LAMBDA s3 :
         _deposit_for(s3, to, locked0.amount,
                      IF locked0.end >= locked1.end THEN locked0.end
                      ELSE locked1.end,
                      locked1, MERGE_TYPE, ts))))

\* variant: from = to not tested
merge_same_position(s, caller, from, to, ts) ==
  IF ~is_approved_or_owner(s, from, caller)
  THEN Err(s, "NotOwnerOrApproved")
  ELSE IF ~is_approved_or_owner(s, to, caller)
  THEN Err(s, "NotOwnerOrApproved")
  ELSE With(get_locked_balance(s, from), LAMBDA locked0 :
       With(get_locked_balance(s, to), LAMBDA locked1 :
       Bind(_burn_nft(_check_point([s EXCEPT !.locked = Put(s.locked, from, LockedBalanceDefault)],
                            from, locked0, LockedBalanceDefault, ts),
                      caller, from, ts),
            LAMBDA s3 :
         _deposit_for(s3, to, locked0.amount,
                      IF locked0.end >= locked1.end THEN locked0.end
                      ELSE locked1.end,
                      locked1, MERGE_TYPE, ts))))

\* vedata.rs:988-1018
merge(s, caller, from, to, ts) ==
  IF ~(from # to) THEN Err(s, "FromMustNotTo")
  ELSE IF ~is_approved_or_owner(s, from, caller)
  THEN Err(s, "NotOwnerOrApproved")
  ELSE IF ~is_approved_or_owner(s, to, caller)
  THEN Err(s, "NotOwnerOrApproved")
  ELSE With(get_locked_balance(s, from), LAMBDA locked0 :
       With(get_locked_balance(s, to), LAMBDA locked1 :
       Bind(_burn_nft(_check_point([s EXCEPT !.locked = Put(s.locked, from, LockedBalanceDefault)],
                            from, locked0, LockedBalanceDefault, ts),
                      caller, from, ts),
            LAMBDA s3 :
         _deposit_for(s3, to, locked0.amount,
                      IF locked0.end >= locked1.end THEN locked0.end
                      ELSE locked1.end,
                      locked1, MERGE_TYPE, ts))))

delegate(s, caller, delegatee, ts) == _delegate(s, caller, delegatee, ts)

(***************************************************************************)
(* Entry-point dispatch.  A call is an entry point and its arguments:      *)
(* caller (the immediate caller), key (`to` of create_lock_for, the        *)
(* delegatee), tid (token_id, `to` of merge), tid2 (`from` of merge),      *)
(* amount and dur (lock_duration).                                         *)
(***************************************************************************)
Args(caller, key, tid, tid2, amount, dur) ==
  [caller |-> caller, key |-> key, tid |-> tid, tid2 |-> tid2,
   amount |-> amount, dur |-> dur]

Handler(op, s, a, ts) ==
  CASE op = "create_lock" -> create_lock(s, a.caller, a.amount, a.dur, ts)
    [] op = "create_lock_for" -> create_lock_for(s, a.key, a.amount, a.dur, ts)
    [] op = "deposit_for" -> deposit_for(s, a.tid, a.amount, ts)
    [] op = "increase_amount" -> increase_amount(s, a.caller, a.tid, a.amount, ts)
    [] op = "increase_amount_for" ->
         increase_amount_for(s, a.caller, a.tid, a.amount, ts)
    [] op = "increase_unlock_time" ->
         increase_unlock_time(s, a.caller, a.tid, a.dur, ts)
    [] op = "merge" -> merge(s, a.caller, a.tid2, a.tid, ts)
    [] op = "check_point" -> check_point(s, ts)
    [] op = "delegate" -> delegate(s, a.caller, a.key, ts)

\* the entry points that call lock_contract and, as their last statement,
\* unlock_contract (vedata.rs:606-613, 622-625, 638-655, 668-685)
GuardedOps ==
  {"create_lock", "create_lock_for", "increase_amount", "increase_unlock_time"}

\* what follows the return of transfer_from: the asset is in custody and a
\* guarded entry point releases the flag
Complete(s, op, xfer) ==
  LET s1 == [s EXCEPT !.custody = @ + xfer]
  IN IF op \in GuardedOps THEN unlock_contract(s1) ELSE s1

\* position ids a call may name: those ever minted and one that never was
TokenArgs(s) == 1..(Cardinality(DOMAIN s.locked) + 1)

\* the calls the model issues, per entry point
CallArgs(op, s) ==
  CASE op = "create_lock" ->
         {Args(c, Null, 0, 0, m, d) : c \in Accounts, m \in inputs.amounts, d \in inputs.durations}
    [] op = "create_lock_for" ->
         {Args("a2", "a1", 0, 0, m, d) : m \in inputs.amounts, d \in inputs.durations}
    [] op = "deposit_for" ->
         {Args("a2", Null, t, 0, m, 0) : t \in TokenArgs(s), m \in inputs.amounts}
    [] op = "increase_amount" ->
         {Args(c, Null, t, 0, m, 0) : c \in Accounts, t \in TokenArgs(s), m \in inputs.amounts}
    [] op = "increase_amount_for" ->
         {Args(c, Null, t, 0, m, 0) : c \in Accounts, t \in TokenArgs(s), m \in inputs.amounts}
    [] op = "increase_unlock_time" ->
         {Args(c, Null, t, 0, 0, d) : c \in Accounts, t \in TokenArgs(s), d \in inputs.durations}
    [] op = "merge" ->
         {Args(c, Null, t, f, 0, 0) : c \in Accounts, t \in TokenArgs(s), f \in TokenArgs(s)}
    [] op = "check_point" -> {Args("a2", Null, 0, 0, 0, 0)}
    [] op = "delegate" ->
         {Args(c, k, 0, 0, 0, 0) : c \in Accounts, k \in Keys}

Ops == {"create_lock", "create_lock_for", "deposit_for", "increase_amount",
        "increase_amount_for", "increase_unlock_time", "merge", "check_point",
        "delegate"}

Idle == [phase |-> "idle"]

CreateOps == {"create_lock", "create_lock_for"}

\* the bound on successful calls
WithinBudget(op) ==
  IF op \in CreateOps THEN ncreates < inputs.positions ELSE nops < inputs.ops

Count(op) ==
  /\ ncreates' = IF op \in CreateOps THEN ncreates + 1 ELSE ncreates
  /\ nops' = IF op \in CreateOps THEN nops ELSE nops + 1

Record(op, a, r, nested, stage) ==
  [op |-> op, args |-> a, ok |-> r.ok, err |-> r.err, nested |-> nested,
   stage |-> stage, xfer |-> r.xfer, reentered |-> FALSE]

(***************************************************************************)
(* A top-level call.  A call that reverts leaves the stores as they were;  *)
(* whatever can follow it can follow the state it began in, so behaviours  *)
(* are not continued past a reverted call.  A call that reaches            *)
(* transfer_from is suspended there (phase "in_transfer") with its stores  *)
(* committed; any other successful call runs to its end.                   *)
(***************************************************************************)
Invoke(op, a, r) ==
  /\ call.phase = "idle"
  /\ last.ok
  /\ r.ok => WithinBudget(op)
  /\ pre' = st
  /\ IF ~r.ok
     THEN /\ st' = st
          /\ last' = Record(op, a, r, FALSE, "done")
          /\ UNCHANGED <<call, ncreates, nops>>
     ELSE IF r.xfer > 0
     THEN /\ st' = r.st
          /\ last' = Record(op, a, r, FALSE, "transfer")
          /\ call' = [phase |-> "in_transfer", op |-> op, xfer |-> r.xfer,
                      saved |-> st, ncreates |-> ncreates, nops |-> nops,
                      reentered |-> FALSE,
                      rec |-> Record(op, a, r, FALSE, "done")]
          /\ Count(op)
     ELSE /\ st' = Complete(r.st, op, 0)
          /\ last' = Record(op, a, r, FALSE, "done")
          /\ Count(op)
          /\ UNCHANGED call
  /\ UNCHANGED <<now, inputs, nticks>>

CreateLock ==
  \E a \in CallArgs("create_lock", st) :
    Invoke("create_lock", a, create_lock(st, a.caller, a.amount, a.dur, now))

CreateLockFor ==
  \E a \in CallArgs("create_lock_for", st) :
    Invoke("create_lock_for", a, create_lock_for(st, a.key, a.amount, a.dur, now))

DepositFor ==
  \E a \in CallArgs("deposit_for", st) :
    Invoke("deposit_for", a, deposit_for(st, a.tid, a.amount, now))

IncreaseAmount ==
  \E a \in CallArgs("increase_amount", st) :
    Invoke("increase_amount", a,
           increase_amount(st, a.caller, a.tid, a.amount, now))

IncreaseAmountFor ==
  \E a \in CallArgs("increase_amount_for", st) :
    Invoke("increase_amount_for", a,
           increase_amount_for(st, a.caller, a.tid, a.amount, now))

IncreaseUnlockTime ==
  \E a \in CallArgs("increase_unlock_time", st) :
    Invoke("increase_unlock_time", a,
           increase_unlock_time(st, a.caller, a.tid, a.dur, now))

\* merge(from, to): from is a.tid2 and to is a.tid
Merge ==
  \E a \in CallArgs("merge", st) :
    Invoke("merge", a, merge(st, a.caller, a.tid2, a.tid, now))

CheckPoint ==
  \E a \in CallArgs("check_point", st) :
    Invoke("check_point", a, check_point(st, now))

Delegate ==
  \E a \in CallArgs("delegate", st) :
    Invoke("delegate", a, delegate(st, a.caller, a.key, now))

\* transfer_from returns: the suspended call runs to its end
TransferReturns ==
  /\ call.phase = "in_transfer"
  /\ last.ok
  /\ st' = Complete(st, call.op, call.xfer)
  /\ pre' = call.saved
  /\ last' = [call.rec EXCEPT !.reentered = call.reentered]
  /\ call' = Idle
  /\ UNCHANGED <<now, inputs, ncreates, nops, nticks>>

\* the asset contract calls back into an entry point before it returns.  A
\* nested call that succeeds runs to its end (its own transfer does not call
\* back); one that reverts makes the whole deploy revert.
Nested(op, a, r) ==
  /\ a.caller = AssetContract
  /\ r.ok => WithinBudget(op)
  /\ pre' = st
  /\ last' = Record(op, a, r, TRUE, "done")
  /\ IF r.ok
     THEN /\ st' = Complete(r.st, op, r.xfer)
          /\ Count(op)
          /\ call' = [call EXCEPT !.reentered = TRUE]
     ELSE /\ st' = st
          /\ call' = [call EXCEPT !.phase = "reverting"]
          /\ UNCHANGED <<ncreates, nops>>

NestedCall ==
  /\ call.phase = "in_transfer"
  /\ inputs.callbacks
  /\ last.ok
  /\ \E op \in Ops : \E a \in CallArgs(op, st) :
       Nested(op, a, Handler(op, st, a, now))
  /\ UNCHANGED <<now, inputs, nticks>>

\* variant: a revert that leaves the writes made before it in place
Revert_keeps_writes ==
  /\ call.phase = "reverting"
  /\ st' = st
  /\ pre' = call.saved
  /\ last' = [call.rec EXCEPT !.ok = FALSE, !.err = "NestedRevert"]
  /\ ncreates' = call.ncreates
  /\ nops' = call.nops
  /\ call' = Idle
  /\ UNCHANGED <<now, inputs, nticks>>

\* runtime::revert (utils.rs:78-82) in a nested call ends the deploy: none of
\* its writes persist
Revert ==
  /\ call.phase = "reverting"
  /\ st' = call.saved
  /\ pre' = call.saved
  /\ last' = [call.rec EXCEPT !.ok = FALSE, !.err = "NestedRevert"]
  /\ ncreates' = call.ncreates
  /\ nops' = call.nops
  /\ call' = Idle
  /\ UNCHANGED <<now, inputs, nticks>>

\* the block time advances between deploys
Tick ==
  /\ call.phase = "idle"
  /\ last.ok
  /\ nticks < MaxTicks
  /\ now' = now + TickStep
  /\ nticks' = nticks + 1
  /\ pre' = st
  /\ last' = [op |-> "tick", args |-> Args(Null, Null, 0, 0, 0, 0), ok |-> TRUE,
              err |-> "", nested |-> FALSE, stage |-> "done", xfer |-> 0,
              reentered |-> FALSE]
  /\ UNCHANGED <<st, call, inputs, ncreates, nops>>

Init ==
  /\ now = GenesisTime
  /\ st = initialize(GenesisTime)
  /\ pre = initialize(GenesisTime)
  /\ last = [op |-> "initialize", args |-> Args(Team, Null, 0, 0, 0, 0),
             ok |-> TRUE, err |-> "", nested |-> FALSE, stage |-> "done",
             xfer |-> 0, reentered |-> FALSE]
  /\ call = Idle
  /\ inputs \in {MainInputs, ScenarioInputs, ReentrantInputs}
  /\ ncreates = 0
  /\ nops = 0
  /\ nticks = 0

Next ==
  \/ CreateLock
  \/ CreateLockFor
  \/ DepositFor
  \/ IncreaseAmount
  \/ IncreaseAmountFor
  \/ IncreaseUnlockTime
  \/ Merge
  \/ CheckPoint
  \/ Delegate
  \/ TransferReturns
  \/ NestedCall
  \/ Revert
  \/ Tick

Spec == Init /\ [][Next]_vars

(***************************************************************************)
(* Delegation over a longer run: positions are created, merged and         *)
(* delegated, with two delegations in one behaviour.                       *)
(***************************************************************************)
DelegationInit ==
  /\ now = GenesisTime
  /\ st = initialize(GenesisTime)
  /\ pre = initialize(GenesisTime)
  /\ last = [op |-> "initialize", args |-> Args(Team, Null, 0, 0, 0, 0),
             ok |-> TRUE, err |-> "", nested |-> FALSE, stage |-> "done",
             xfer |-> 0, reentered |-> FALSE]
  /\ call = Idle
  /\ inputs = DelegationInputs
  /\ ncreates = 0
  /\ nops = 0
  /\ nticks = 0

DelegationNext ==
  \/ CreateLock
  \/ CreateLockFor
  \/ Merge
  \/ Delegate
  \/ TransferReturns
  \/ Tick

DelegationSpec == DelegationInit /\ [][DelegationNext]_vars

(***************************************************************************)
(* Delegation at the capacity of a checkpoint.  The behaviours start from  *)
(* the stores as MAX_DELEGATES - 1 calls of create_lock by one account     *)
(* leave them, each call run to its end.                                   *)
(***************************************************************************)
\* the creates number lo..hi, one after the other
RECURSIVE CreateLocks(_, _, _)
CreateLocks(s, lo, hi) ==
  IF lo = hi
  THEN Bind(create_lock(s, Team, 1000, 2 * WEEK, GenesisTime), LAMBDA s1 :
         Ok(Complete(s1, "create_lock", 1000), 0))
  ELSE Bind(CreateLocks(s, lo, (lo + hi) \div 2), LAMBDA s1 :
         CreateLocks(s1, (lo + hi) \div 2 + 1, hi))

CapacityInit ==
  /\ now = GenesisTime
  /\ st = CreateLocks(initialize(GenesisTime), 1, MAX_DELEGATES - 1).st
  /\ pre = st
  /\ last = [op |-> "create_lock", args |-> Args(Team, Null, 0, 0, 1000, 2 * WEEK),
             ok |-> TRUE, err |-> "", nested |-> FALSE, stage |-> "done",
             xfer |-> 1000, reentered |-> FALSE]
  /\ call = Idle
  /\ inputs = CapacityInputs
  /\ ncreates = MAX_DELEGATES - 1
  /\ nops = 0
  /\ nticks = 0

CapacityNext ==
  \/ CreateLock
  \/ CreateLockFor
  \/ Delegate
  \/ TransferReturns

CapacitySpec == CapacityInit /\ [][CapacityNext]_vars

(***************************************************************************)
(* _find_block_epoch over drawn histories: the global history holds        *)
(* 1..MaxEpochs points whose block numbers do not decrease, and the search *)
(* is called for a block and a max_epoch.                                  *)
(***************************************************************************)
BlockRange == current_block_number..(current_block_number + MaxEpochs - 1)

\* the histories of n points, as the blocks of epochs 0..n-1
BlockHistories(n) ==
  {h \in [0..(n - 1) -> BlockRange] : \A e \in 1..(n - 1) : h[e - 1] <= h[e]}

HistoryStore(h, n) ==
  [initialize(GenesisTime) EXCEPT
     !.point_history = [e \in 0..(n - 1) |->
                          [bias |-> 0, slope |-> 0, ts |-> GenesisTime + e * DAY,
                           blk |-> h[e]]],
     !.epoch = n - 1]

BlockSearchInit ==
  /\ now = GenesisTime + MaxEpochs * DAY
  /\ \E n \in 1..MaxEpochs : \E h \in BlockHistories(n) : st = HistoryStore(h, n)
  /\ pre = st
  /\ last = [op |-> "initialize", args |-> Args(Team, Null, 0, 0, 0, 0),
             ok |-> TRUE, err |-> "", nested |-> FALSE, stage |-> "done",
             xfer |-> 0, reentered |-> FALSE]
  /\ call = Idle
  /\ inputs = MainInputs
  /\ ncreates = 0
  /\ nops = 0
  /\ nticks = 0

\* a query: the stores are read and the result is returned
Answer(op, a, result) ==
  [op |-> op, args |-> a, ok |-> TRUE, err |-> "", nested |-> FALSE,
   stage |-> "done", xfer |-> 0, reentered |-> FALSE, result |-> result]

FindBlockEpoch ==
  /\ \E b \in BlockRange \cup {current_block_number - 1,
                               current_block_number + MaxEpochs} :
       \E m \in 0..st.epoch :
         last' = Answer("_find_block_epoch", [block |-> b, max_epoch |-> m],
                        _find_block_epoch(st, b, m))
  /\ pre' = st
  /\ UNCHANGED <<now, st, call, inputs, ncreates, nops, nticks>>

BlockSearchNext == FindBlockEpoch

BlockSearchSpec == BlockSearchInit /\ [][BlockSearchNext]_vars

(***************************************************************************)
(* _get_past_votes_index over drawn checkpoint histories of one account:   *)
(* up to MaxCheckpoints checkpoints whose timestamps increase, as          *)
(* _find_what_checkpoint_to_write keeps one checkpoint per timestamp, or   *)
(* whose timestamps are all 0, as the checkpoints the contract writes.     *)
(***************************************************************************)
CheckpointTimes == {GenesisTime + k * DAY : k \in 0..MaxCheckpoints}

RECURSIVE Ascending(_)
Ascending(S) ==
  IF S = {} THEN <<>>
  ELSE With(CHOOSE x \in S : \A y \in S : x <= y, LAMBDA x :
         <<x>> \o Ascending(S \ {x}))

CheckpointHistories ==
  {Ascending(S) : S \in {T \in SUBSET CheckpointTimes :
                           Cardinality(T) <= MaxCheckpoints}}
    \cup {[i \in 1..n |-> 0] : n \in 1..MaxCheckpoints}

\* the checkpoints of Team with the timestamps q; checkpoint i lists position i + 1
CheckpointStore(q) ==
  [initialize(GenesisTime) EXCEPT
     !.checkpoints = [k \in {<<Team, i>> : i \in 0..(Len(q) - 1)} |->
                        [timestamp |-> q[k[2] + 1], token_ids |-> <<k[2] + 1>>]],
     !.num_checkpoints = IF q = <<>> THEN EmptyDict ELSE Put(EmptyDict, Team, Len(q))]

VotesIndexInit ==
  /\ now = GenesisTime + (MaxCheckpoints + 1) * DAY
  /\ \E q \in CheckpointHistories : st = CheckpointStore(q)
  /\ pre = st
  /\ last = [op |-> "initialize", args |-> Args(Team, Null, 0, 0, 0, 0),
             ok |-> TRUE, err |-> "", nested |-> FALSE, stage |-> "done",
             xfer |-> 0, reentered |-> FALSE]
  /\ call = Idle
  /\ inputs = MainInputs
  /\ ncreates = 0
  /\ nops = 0
  /\ nticks = 0

GetPastVotesIndex ==
  /\ \E a \in Accounts :
       \E t \in CheckpointTimes \cup {GenesisTime - DAY, now} :
         last' = Answer("get_past_votes_index", [address |-> a, timestamp |-> t],
                        _get_past_votes_index(st, a, t))
  /\ pre' = st
  /\ UNCHANGED <<now, st, call, inputs, ncreates, nops, nticks>>

VotesIndexNext == GetPastVotesIndex

VotesIndexSpec == VotesIndexInit /\ [][VotesIndexNext]_vars

(***************************************************************************)
(* Long per-position histories.  The behaviours start from the stores as   *)
(* eleven calls of create_lock for the longest lock and nine calls of      *)
(* deposit_for on position 1 leave them, each call run to its end:         *)
(* position 1 is at per-position epoch 10 and position 11 at epoch 1.      *)
(***************************************************************************)
\* n calls of one entry point with the same arguments, one after the other
RECURSIVE Repeated(_, _, _, _)
Repeated(s, op, a, n) ==
  IF n = 0 THEN Ok(s, 0)
  ELSE Bind(Repeated(s, op, a, n - 1), LAMBDA s1 :
       Bind(Handler(op, s1, a, GenesisTime), LAMBDA s2 :
         Ok(Complete(s2, op, a.amount), 0)))

HistoryInit ==
  /\ now = GenesisTime
  /\ pre = Repeated(Repeated(initialize(GenesisTime), "create_lock",
                             Args(Team, Null, 0, 0, BigAmount, MAXTIME), 11).st,
                    "deposit_for", Args("a2", Null, 1, 0, BigAmount, 0), 8).st
  /\ st = Repeated(pre, "deposit_for", Args("a2", Null, 1, 0, BigAmount, 0), 1).st
  /\ last = [op |-> "deposit_for", args |-> Args("a2", Null, 1, 0, BigAmount, 0),
             ok |-> TRUE, err |-> "", nested |-> FALSE, stage |-> "done",
             xfer |-> BigAmount, reentered |-> FALSE]
  /\ call = Idle
  /\ inputs = HistoryInputs
  /\ ncreates = 11
  /\ nops = 0
  /\ nticks = 0

\* merges of the oldest and the newest position by their owner
MergeEnds ==
  \E a \in {Args(Team, Null, t, f, 0, 0) : t \in {1, 11}, f \in {1, 11}} :
    Invoke("merge", a, merge(st, a.caller, a.tid2, a.tid, now))

HistoryNext ==
  \/ DepositFor
  \/ MergeEnds
  \/ TransferReturns

HistorySpec == HistoryInit /\ [][HistoryNext]_vars

(***************************************************************************)
(* Creates around a merge: positions are created, two of them are merged   *)
(* (the source is burned) and another position is created.                 *)
(***************************************************************************)
ReuseInit ==
  /\ now = GenesisTime
  /\ st = initialize(GenesisTime)
  /\ pre = initialize(GenesisTime)
  /\ last = [op |-> "initialize", args |-> Args(Team, Null, 0, 0, 0, 0),
             ok |-> TRUE, err |-> "", nested |-> FALSE, stage |-> "done",
             xfer |-> 0, reentered |-> FALSE]
  /\ call = Idle
  /\ inputs = ReuseInputs
  /\ ncreates = 0
  /\ nops = 0
  /\ nticks = 0

ReuseNext ==
  \/ CreateLock
  \/ Merge
  \/ TransferReturns

ReuseSpec == ReuseInit /\ [][ReuseNext]_vars

(***************************************************************************)
(* Locks that expire: positions locked for one and for two weeks are       *)
(* created, topped up, extended, merged and checkpointed while the block   *)
(* time passes the end of the shorter lock.                                *)
(***************************************************************************)
DecayInit ==
  /\ now = GenesisTime
  /\ st = initialize(GenesisTime)
  /\ pre = initialize(GenesisTime)
  /\ last = [op |-> "initialize", args |-> Args(Team, Null, 0, 0, 0, 0),
             ok |-> TRUE, err |-> "", nested |-> FALSE, stage |-> "done",
             xfer |-> 0, reentered |-> FALSE]
  /\ call = Idle
  /\ inputs = DecayInputs
  /\ ncreates = 0
  /\ nops = 0
  /\ nticks = 0

DecayNext ==
  \/ CreateLock
  \/ DepositFor
  \/ IncreaseUnlockTime
  \/ Merge
  \/ CheckPoint
  \/ TransferReturns
  \/ Tick

DecaySpec == DecayInit /\ [][DecayNext]_vars

(***************************************************************************)
(* The replay horizon: the block time advances by 130 weeks and a half at   *)
(* a time, so that more than 255 weekly buckets can lie between the latest *)
(* global point and the current time, and check_point is called while the  *)
(* latest global point is behind.                                          *)
(***************************************************************************)
LeapStep == 130 * WEEK + WEEK \div 2

Leap ==
  /\ call.phase = "idle"
  /\ last.ok
  /\ nticks < MaxLeaps
  /\ now' = now + LeapStep
  /\ nticks' = nticks + 1
  /\ pre' = st
  /\ last' = [op |-> "tick", args |-> Args(Null, Null, 0, 0, 0, 0), ok |-> TRUE,
              err |-> "", nested |-> FALSE, stage |-> "done", xfer |-> 0,
              reentered |-> FALSE]
  /\ UNCHANGED <<st, call, inputs, ncreates, nops>>

\* the latest global point is older than the current time
Lagging == get_point(st, st.epoch).ts < now

CatchUp == Lagging /\ CheckPoint

\* CatchUp can be taken: the conditions of Invoke for a call that succeeds
CanCatchUp ==
  Lagging /\ call.phase = "idle" /\ last.ok /\ WithinBudget("check_point")

HorizonInit ==
  /\ now = GenesisTime
  /\ st = initialize(GenesisTime)
  /\ pre = initialize(GenesisTime)
  /\ last = [op |-> "initialize", args |-> Args(Team, Null, 0, 0, 0, 0),
             ok |-> TRUE, err |-> "", nested |-> FALSE, stage |-> "done",
             xfer |-> 0, reentered |-> FALSE]
  /\ call = Idle
  /\ inputs = HorizonInputs
  /\ ncreates = 0
  /\ nops = 0
  /\ nticks = 0

HorizonNext ==
  \/ CreateLock
  \/ TransferReturns
  \/ Leap
  \/ CatchUp

\* a deploy in progress runs to its end, and check_point keeps being called
\* while the latest global point is behind
\* whenever it can, which is weak fairness of CatchUp with its enabling
\* condition written out
HorizonSpec ==
  HorizonInit /\ [][HorizonNext]_vars
    /\ WF_vars(TransferReturns)
    /\ ([]<>~CanCatchUp \/ []<><<CatchUp>>_vars)

(***************************************************************************)
(* The query entry points, called between the deploys of a run in which    *)
(* positions are created, topped up, delegated and left to decay.          *)
(***************************************************************************)
Queries ==
  {"balance_of_nft", "balance_of_nft_at", "balance_of_at_nft", "ve_total_supply",
   "total_supply_at_t", "total_supply_at", "locked_end", "get_votes",
   "get_past_votes", "get_past_votes_index", "delegates", "get_last_user_slope"}

QueryArgsOf(address, token_id, t, block) ==
  [address |-> address, token_id |-> token_id, t |-> t, block |-> block]

\* times and blocks a query may name: past, present and future
QueryTimes == {GenesisTime, now, now + 2 * WEEK}

QueryBlocks == {current_block_number - 1, current_block_number,
                current_block_number + 1}

QueryArgs(op, s) ==
  CASE op \in {"balance_of_nft", "locked_end", "get_last_user_slope"} ->
         {QueryArgsOf(Null, k, 0, 0) : k \in TokenArgs(s)}
    [] op = "balance_of_nft_at" ->
         {QueryArgsOf(Null, k, t, 0) : k \in TokenArgs(s), t \in QueryTimes}
    [] op = "balance_of_at_nft" ->
         {QueryArgsOf(Null, k, 0, b) : k \in TokenArgs(s), b \in QueryBlocks}
    [] op = "ve_total_supply" -> {QueryArgsOf(Null, 0, 0, 0)}
    [] op = "total_supply_at_t" -> {QueryArgsOf(Null, 0, t, 0) : t \in QueryTimes}
    [] op = "total_supply_at" -> {QueryArgsOf(Null, 0, 0, b) : b \in QueryBlocks}
    [] op \in {"get_votes", "delegates"} ->
         {QueryArgsOf(k, 0, 0, 0) : k \in Accounts}
    [] op \in {"get_past_votes", "get_past_votes_index"} ->
         {QueryArgsOf(k, 0, t, 0) : k \in Accounts, t \in QueryTimes}

QueryHandler(op, s, a, ts) ==
  CASE op = "balance_of_nft" -> balance_of_nft(s, a.token_id, ts)
    [] op = "balance_of_nft_at" -> balance_of_nft_at(s, a.token_id, a.t)
    [] op = "balance_of_at_nft" -> balance_of_at_nft(s, a.token_id, a.block, ts)
    [] op = "ve_total_supply" -> ve_total_supply(s, ts)
    [] op = "total_supply_at_t" -> total_supply_at_t(s, a.t)
    [] op = "total_supply_at" -> total_supply_at(s, a.block, ts)
    [] op = "locked_end" -> locked_end(s, a.token_id)
    [] op = "get_last_user_slope" -> get_last_user_slope(s, a.token_id)
    [] op = "get_votes" -> Returns(s, get_votes(s, a.address, ts))
    [] op = "get_past_votes" -> Returns(s, get_past_votes(s, a.address, a.t))
    [] op = "get_past_votes_index" ->
         Returns(s, _get_past_votes_index(s, a.address, a.t))
    [] op = "delegates" -> Returns(s, delegates(s, a.address))

\* what a query returned: its value, or the error it reverted with
Outcome(r) == IF r.ok THEN r.result ELSE r.err

\* a query is asked once, or again with the same arguments, before the next
\* deploy
Query ==
  /\ call.phase = "idle"
  /\ last.ok
  /\ \E op \in Queries : \E a \in QueryArgs(op, st) :
       LET r == QueryHandler(op, st, a, now)
       IN /\ last.op \in Queries => (op = last.op /\ a = last.args)
          /\ st' = r.st
          /\ last' = [Answer(op, a, Outcome(r)) EXCEPT !.ok = r.ok, !.err = r.err]
  /\ pre' = st
  /\ UNCHANGED <<now, call, inputs, ncreates, nops, nticks>>

QueryInit ==
  /\ now = GenesisTime
  /\ st = initialize(GenesisTime)
  /\ pre = initialize(GenesisTime)
  /\ last = [op |-> "initialize", args |-> Args(Team, Null, 0, 0, 0, 0),
             ok |-> TRUE, err |-> "", nested |-> FALSE, stage |-> "done",
             xfer |-> 0, reentered |-> FALSE]
  /\ call = Idle
  /\ inputs = QueryInputs
  /\ ncreates = 0
  /\ nops = 0
  /\ nticks = 0

QueryNext ==
  \/ CreateLock
  \/ IncreaseAmount
  \/ Delegate
  \/ TransferReturns
  \/ Tick
  \/ Query

QuerySpec == QueryInit /\ [][QueryNext]_vars

(***************************************************************************)
(* Vocabulary of the properties.                                           *)
(***************************************************************************)
\* the last step was an entry point that ran to its end
Completed(op) == last.op = op /\ last.ok /\ last.stage = "done"

\* ... with no call made into the contract during its transfer
CompletedAlone(op) == Completed(op) /\ ~last.reentered

\* the last step was an entry point that has committed its stores (it is at
\* its transfer or at its end) and nothing else has run since
Committed(op) == last.op = op /\ last.ok /\ ~last.reentered

\* position ids that were ever minted
Positions(s) == DOMAIN s.locked

\* the sum of balanceAt(position, t) over the positions whose lock ends after t
SumLiveBalances(s, t) ==
  SumOver({tid \in Positions(s) : get_locked_balance(s, tid).end > t},
          [tid \in Positions(s) |-> _balance_of_nft(s, tid, t)])

LiveLock(s, tid, t) ==
  get_locked_balance(s, tid).amount > 0 /\ get_locked_balance(s, tid).end > t

\* the position a successful create made, and who received it
CreatedId == pre.nft_total_supply + 1

Recipient == IF last.op = "create_lock" THEN last.args.caller ELSE last.args.key

\* times at which the queries are sampled
SampleTimes == {GenesisTime + k * TickStep : k \in 0..(MaxTicks + 6)}

(***************************************************************************)
(* C1.  Conservation at checkpoint: right after any mutating call has      *)
(* completed at time now, the total-supply query at now equals the sum of  *)
(* balanceAt(position, now) over the positions whose lock has not expired, *)
(* within one unit per position for rounding.                              *)
(***************************************************************************)
C1_ConservationAtCheckpoint ==
  (last.op \in Ops /\ last.ok /\ last.stage = "done")
    => LET d == _total_supply_at_t(st, now) - SumLiveBalances(st, now)
       IN d <= Cardinality(Positions(st)) /\ -d <= Cardinality(Positions(st))

\* the same for the calls that run the checkpoint engine (every one but delegate)
C1_AfterCheckpointingCalls ==
  (last.op \in Ops \ {"delegate"} /\ last.ok /\ last.stage = "done")
    => _total_supply_at_t(st, now) = SumLiveBalances(st, now)

(***************************************************************************)
(* C2.  Monotonic decay: with the stores as they are (no further write to  *)
(* the position), balanceAt(position, t1) >= balanceAt(position, t2) for   *)
(* all t1 <= t2 <= end, balanceAt(position, end) = 0, and the balance is 0 *)
(* at every later time.                                                    *)
(***************************************************************************)
C2_MonotonicDecay ==
  \A tid \in Positions(st) :
    LET end == get_locked_balance(st, tid).end
        T == SampleTimes \cup {now, end, end + 1}
    IN /\ \A t1, t2 \in T :
            (t1 <= t2 /\ t2 <= end)
              => _balance_of_nft(st, tid, t1) >= _balance_of_nft(st, tid, t2)
       /\ _balance_of_nft(st, tid, end) = 0
       /\ \A t \in T : t > end => _balance_of_nft(st, tid, t) = 0

\* a live lock whose balance is positive now and strictly smaller later
C2_Witness ==
  \E tid \in Positions(st) :
    /\ LiveLock(st, tid, now)
    /\ _balance_of_nft(st, tid, now) > 0
    /\ last.op = "tick"
    /\ _balance_of_nft(st, tid, now) < _balance_of_nft(st, tid, now - TickStep)

(***************************************************************************)
(* C3.  Delegation scenario: an account that owns two positions, each      *)
(* attributed to the account itself by default, delegates to another       *)
(* account; then get_votes of that account is the sum of the two           *)
(* positions' current balances and get_votes of the owner is zero.         *)
(***************************************************************************)
C3_DelegationScenario ==
  (/\ CompletedAlone("delegate")
   /\ last.args.key \in Accounts \ {last.args.caller}
   /\ get_delegate(pre, last.args.caller) = Null
   /\ balance_of(pre, last.args.caller) = 2)
    => /\ get_votes(st, last.args.key, now)
            = SumSeq([i \in 1..2 |->
                 _balance_of_nft(st, get_token_by_index(st, last.args.caller, i - 1),
                                 now)])
       /\ get_votes(st, last.args.caller, now) = 0

(***************************************************************************)
(* C4.  Merge result: merge(from, to) of two positions held by the caller  *)
(* leaves `to` with the lock {from.amount + to.amount, max(from.end,       *)
(* to.end)}, clears the lock of `from` to {0, 0}, burns `from`, and calls  *)
(* no external asset transfer.                                             *)
(***************************************************************************)
C4_MergeResult ==
  Completed("merge")
    => LET from == last.args.tid2
           to == last.args.tid
           l0 == get_locked_balance(pre, from)
           l1 == get_locked_balance(pre, to)
       IN /\ get_locked_balance(st, to)
               = [amount |-> l0.amount + l1.amount, end |-> Max(l0.end, l1.end)]
          /\ get_locked_balance(st, from) = [amount |-> 0, end |-> 0]
          /\ owner_of(st, from) = Null
          /\ \A a \in Accounts : \A i \in 1..balance_of(st, a) :
                get_token_by_index(st, a, i - 1) # from
          /\ st.nft_total_supply = pre.nft_total_supply - 1
          /\ last.xfer = 0
          /\ st.custody = pre.custody

\* a merge of two live locks, the source ending before the target
C4_Witness ==
  /\ Completed("merge")
  /\ LiveLock(pre, last.args.tid2, now)
  /\ LiveLock(pre, last.args.tid, now)
  /\ get_locked_balance(pre, last.args.tid2).end
       < get_locked_balance(pre, last.args.tid).end

CreateEnd == ((now + last.args.dur) \div WEEK) * WEEK

ValidCreate ==
  /\ last.args.amount > 0
  /\ CreateEnd > now
  /\ CreateEnd <= now + 26 * WEEK

\* the last step was a create issued by a deploy (not from a callback)
TopLevelCreate ==
  last.op \in CreateOps /\ ~last.nested /\ last.err # "NestedRevert"

(***************************************************************************)
(* C6.  Create validation: create_lock / create_lock_for is rejected when  *)
(* amount = 0, when end = floor((now + duration) / WEEK) * WEEK is not     *)
(* strictly greater than now, or when end > now + 26 weeks; in every       *)
(* accepted case the stored lock of the new position is exactly            *)
(* {amount, end} with that week-rounded end.                               *)
(***************************************************************************)
C6_CreateValidation ==
  last.op \in CreateOps
    => /\ ~ValidCreate => ~last.ok
       /\ (last.ok /\ ~last.reentered)
            => get_locked_balance(st, CreatedId)
                 = [amount |-> last.args.amount, end |-> CreateEnd]

\* an accepted create whose end was rounded down to the week
C6_Witness ==
  /\ last.op \in CreateOps
  /\ last.ok
  /\ ~last.reentered
  /\ (now + last.args.dur) % WEEK # 0
  /\ get_locked_balance(st, CreatedId).end = CreateEnd
  /\ get_locked_balance(st, CreatedId).amount = last.args.amount

(***************************************************************************)
(* C7.  A create_lock with a valid amount and duration mints exactly one   *)
(* new position whose owner is the caller (the named recipient for         *)
(* create_lock_for) and raises that owner's position count by exactly one; *)
(* on a fresh contract the first position has id 1.                        *)
(***************************************************************************)
C7_CreateMintsOnePosition ==
  (TopLevelCreate /\ ValidCreate)
    => /\ last.ok
       /\ ~last.reentered
            => /\ owner_of(st, CreatedId) = Recipient
               /\ owner_of(pre, CreatedId) = Null
               /\ balance_of(st, Recipient) = balance_of(pre, Recipient) + 1
               /\ st.nft_total_supply = pre.nft_total_supply + 1
               /\ Positions(pre) = {} => CreatedId = 1

(***************************************************************************)
(* C8.  Creating a position delegates it to its creator: after a           *)
(* successful create_lock the new position id is a member of the most      *)
(* recent delegate checkpoint of the creator's delegate (the creator       *)
(* itself when no delegate was ever set).                                  *)
(***************************************************************************)
C8_CreateDelegatesToCreator ==
  (last.op \in CreateOps /\ last.ok /\ ~last.reentered)
    => LET cp == LatestCheckpoint(st, _delegates(st, Recipient))
       IN \E i \in 1..Len(cp.token_ids) : cp.token_ids[i] = CreatedId

\* the create of the scenario: amount 1000 for 7 days
ScenarioCreate ==
  /\ last.op \in CreateOps
  /\ last.ok
  /\ ~last.reentered
  /\ last.args.amount = 1000
  /\ last.args.dur = 7 * DAY

(***************************************************************************)
(* C9.  Create scenario: a lock of amount 1000 created for 7 days at time  *)
(* T has end = (T + 7 days) rounded down to a week boundary, balanceAt(T)  *)
(* approximately 1000/26 (the amount scaled by the remaining lock time     *)
(* over the 26-week maximum), balanceAt(end) = 0 and balanceAt(end + 1)    *)
(* = 0.                                                                    *)
(***************************************************************************)
C9_CreateScenario ==
  ScenarioCreate
    => LET end == get_locked_balance(st, CreatedId).end
           scaled == (1000 * (end - now)) \div MAXTIME
       IN /\ end = CreateEnd
          /\ _balance_of_nft(st, CreatedId, now) >= scaled - 1
          /\ _balance_of_nft(st, CreatedId, now) <= (1000 \div 26) + 1
          /\ _balance_of_nft(st, CreatedId, now) > 0
          /\ _balance_of_nft(st, CreatedId, end) = 0
          /\ _balance_of_nft(st, CreatedId, end + 1) = 0

\* C9 as amended: the balance at T is floor(amount / MAXTIME) * (end - T),
\* the slope being the amount divided by MAXTIME in whole units; for the
\* amount 1000 it is 0.  The end and the two zero balances are as stated.
C9_CreateScenarioWholeUnits ==
  (last.op \in CreateOps /\ last.ok /\ ~last.reentered)
    => LET end == get_locked_balance(st, CreatedId).end
       IN /\ end = CreateEnd
          /\ _balance_of_nft(st, CreatedId, now)
               = (last.args.amount \div MAXTIME) * (end - now)
          /\ last.args.amount = 1000 => _balance_of_nft(st, CreatedId, now) = 0
          /\ _balance_of_nft(st, CreatedId, end) = 0
          /\ _balance_of_nft(st, CreatedId, end + 1) = 0

\* the scenario's create has completed, its end rounded down into the week
C9_Witness ==
  /\ ScenarioCreate
  /\ last.stage = "done"
  /\ get_locked_balance(st, CreatedId).end = CreateEnd
  /\ CreateEnd < now + 7 * DAY
  /\ CreateEnd > now

\* the last step was a call from the asset contract into a guarded entry
\* point while the flag was set
NestedIntoGuarded == last.nested /\ last.op \in GuardedOps /\ pre.is_locked

(***************************************************************************)
(* C10.  Reentrancy guard: while the flag is held by create_lock,          *)
(* create_lock_for, increase_amount or increase_unlock_time (during their  *)
(* external asset transfer), any nested call to one of these entry points  *)
(* is rejected with ContractLocked and changes no state.                   *)
(***************************************************************************)
C10_ReentrancyGuard ==
  NestedIntoGuarded
    => /\ ~last.ok
       /\ last.err = "ContractLocked"
       /\ st = pre

\* C10 as amended: the nested call is rejected and changes no state; the
\* error is ContractLocked, except that increase_amount and
\* increase_unlock_time test the caller's hold on the position first and
\* reject a caller that has none with NotOwnerOrApproved.
C10_GuardRejectsNested ==
  NestedIntoGuarded
    => /\ ~last.ok
       /\ st = pre
       /\ last.err
            = IF /\ last.op \in {"increase_amount", "increase_unlock_time"}
                 /\ ~is_approved_or_owner(pre, last.args.tid, last.args.caller)
              THEN "NotOwnerOrApproved"
              ELSE "ContractLocked"

\* a nested increase_amount by the holder of the position, turned away by
\* the flag
C10_Witness ==
  /\ NestedIntoGuarded
  /\ last.op = "increase_amount"
  /\ is_approved_or_owner(pre, last.args.tid, last.args.caller)
  /\ last.args.amount > 0
  /\ ~last.ok
  /\ last.err = "ContractLocked"
  /\ call.phase = "reverting"

(***************************************************************************)
(* C11.  Every mutating entry point other than merge (create_lock,         *)
(* create_lock_for, deposit_for, increase_amount, increase_amount_for,     *)
(* increase_unlock_time, check_point, delegate) holds the reentrancy flag  *)
(* for the duration of the call, so the flag is set while the call is at   *)
(* its external transfer, and any nested mutating call made while the flag *)
(* is set is rejected.                                                     *)
(***************************************************************************)
C11_AllEntryPointsGuarded ==
  /\ (call.phase = "in_transfer" /\ call.op \in Ops \ {"merge"}) => st.is_locked
  /\ (last.nested /\ last.op \in Ops \ {"merge"} /\ pre.is_locked) => ~last.ok

(***************************************************************************)
(* C12.  The reentrancy flag is released on every exit path: whenever no   *)
(* call is in progress (after a guarded call has completed, or has aborted *)
(* at any validation step, or was reverted from a nested call), is_locked  *)
(* is false, so no top-level call is ever rejected with ContractLocked.    *)
(***************************************************************************)
C12_FlagReleased ==
  /\ call.phase = "idle" => ~st.is_locked
  /\ ~last.nested => last.err # "ContractLocked"

\* a guarded call that held the flag at its transfer was reverted by a
\* rejected nested call, and the flag is clear
C12_Witness ==
  /\ call.phase = "idle"
  /\ last.op \in GuardedOps
  /\ last.err = "NestedRevert"
  /\ ~st.is_locked
  /\ Positions(st) = Positions(pre)

(***************************************************************************)
(* C13.  Abort atomicity: a call that is rejected (zero amount, missing or *)
(* expired lock, unlock time not in the future or beyond 26 weeks, caller  *)
(* not owner or approved, from = to, or a revert raised by a nested call)  *)
(* leaves every store (locks, global and per-position history, epochs,     *)
(* slope changes, delegate checkpoints and counters, supply, reentrancy    *)
(* flag) exactly as it was before the call.                                *)
(***************************************************************************)
C13_AbortAtomicity ==
  (last.op \in Ops /\ ~last.ok) => st = pre

\* a deploy that had committed a position and set the flag before its
\* transfer was reverted, and the stores hold no trace of it
C13_Witness ==
  /\ last.op \in CreateOps
  /\ last.err = "NestedRevert"
  /\ call.phase = "idle"
  /\ st = pre
  /\ ncreates = Cardinality(Positions(st))

\* the lock a call on a position found, and what a week-rounded extension of
\* it would end at
LockBefore == get_locked_balance(pre, last.args.tid)

ExtendedEnd == ((now + last.args.dur) \div WEEK) * WEEK

(***************************************************************************)
(* C14.  deposit_for / increase_amount on a position is rejected unless    *)
(* amount > 0 and the position has a lock with amount > 0 and end > now;   *)
(* on success the lock's amount grows by exactly the deposited value and   *)
(* its end is unchanged.                                                   *)
(***************************************************************************)
C14_DepositValidation ==
  last.op \in {"deposit_for", "increase_amount"}
    => /\ ~(last.args.amount > 0 /\ LockBefore.amount > 0 /\ LockBefore.end > now)
            => ~last.ok
       /\ (last.ok /\ ~last.reentered)
            => get_locked_balance(st, last.args.tid)
                 = [amount |-> LockBefore.amount + last.args.amount,
                    end |-> LockBefore.end]

\* an increase_amount on a live lock that ran to its end, some time after the
\* lock was created
C14_Witness ==
  /\ CompletedAlone("increase_amount")
  /\ LiveLock(pre, last.args.tid, now)
  /\ last.args.amount > 0
  /\ now > GenesisTime
  /\ get_locked_balance(st, last.args.tid).amount
       = LockBefore.amount + last.args.amount
  /\ get_locked_balance(st, last.args.tid).end = LockBefore.end
  /\ st.custody = pre.custody + last.args.amount

(***************************************************************************)
(* C15.  increase_unlock_time on a position is rejected unless its lock is *)
(* non-expired (end > now) with amount > 0, the week-rounded new end       *)
(* floor((now + duration) / WEEK) * WEEK is strictly greater than the      *)
(* current end, and that new end is <= now + 26 weeks; on success the      *)
(* lock's end becomes the rounded value and its amount is unchanged.       *)
(***************************************************************************)
C15_IncreaseUnlockTime ==
  last.op = "increase_unlock_time"
    => /\ ~(/\ LockBefore.end > now
            /\ LockBefore.amount > 0
            /\ ExtendedEnd > LockBefore.end
            /\ ExtendedEnd <= now + 26 * WEEK)
            => ~last.ok
       /\ (last.ok /\ ~last.reentered)
            => get_locked_balance(st, last.args.tid)
                 = [amount |-> LockBefore.amount, end |-> ExtendedEnd]

\* an extension that was rounded down to the week and took effect
C15_Witness ==
  /\ Completed("increase_unlock_time")
  /\ LiveLock(pre, last.args.tid, now)
  /\ (now + last.args.dur) % WEEK # 0
  /\ get_locked_balance(st, last.args.tid).end = ExtendedEnd
  /\ ExtendedEnd > LockBefore.end
  /\ get_locked_balance(st, last.args.tid).amount = LockBefore.amount

(***************************************************************************)
(* C16.  merge(from, to) is rejected, with no state change, when from = to *)
(* or when the caller is not the owner (nor approved) of `from` or of      *)
(* `to`.                                                                   *)
(***************************************************************************)
C16_MergeValidation ==
  (/\ last.op = "merge"
   /\ \/ last.args.tid2 = last.args.tid
      \/ owner_of(pre, last.args.tid2) # last.args.caller
      \/ owner_of(pre, last.args.tid) # last.args.caller)
    => ~last.ok /\ st = pre

\* a merge by the holder of `from` into a position somebody else holds
C16_Witness ==
  /\ last.op = "merge"
  /\ ~last.ok
  /\ last.err = "NotOwnerOrApproved"
  /\ owner_of(pre, last.args.tid2) = last.args.caller
  /\ owner_of(pre, last.args.tid) \in Accounts \ {last.args.caller}
  /\ st = pre

(***************************************************************************)
(* C17.  The delegates query for an account returns the delegatee most     *)
(* recently set by that account's delegate call, and the account itself if *)
(* it never delegated.                                                     *)
(***************************************************************************)
C17_DelegatesQuery ==
  /\ \A a \in Accounts : a \notin DOMAIN st.delegates => delegates(st, a) = a
  /\ (Completed("delegate") /\ last.args.key \in Accounts)
       => delegates(st, last.args.caller) = last.args.key

\* the position ids a checkpoint lists, and those an account holds
Listed(cp) == {cp.token_ids[i] : i \in 1..Len(cp.token_ids)}

Held(s, a) == {get_token_by_index(s, a, i - 1) : i \in 1..balance_of(s, a)}

(***************************************************************************)
(* C18.  Re-delegation reconciles the whole owned set: after               *)
(* delegate(owner -> dst) when the owner's votes were attributed to        *)
(* src # dst before (the delegatee set earlier, the owner itself by        *)
(* default), the most recent checkpoint of src lists no position id the    *)
(* owner holds, and the most recent checkpoint of dst lists every position *)
(* id the owner holds together with everything the previous checkpoint of  *)
(* dst listed.                                                             *)
(***************************************************************************)
C18_RedelegationReconciles ==
  (/\ Completed("delegate")
   /\ last.args.key \in Accounts
   /\ _delegates(pre, last.args.caller) # last.args.key)
    => /\ Listed(LatestCheckpoint(st, _delegates(pre, last.args.caller)))
            \cap Held(st, last.args.caller) = {}
       /\ Held(st, last.args.caller)
            \subseteq Listed(LatestCheckpoint(st, last.args.key))
       /\ Listed(LatestCheckpoint(pre, last.args.key))
            \subseteq Listed(LatestCheckpoint(st, last.args.key))

\* a second delegation: the positions of the owner leave the checkpoint of
\* the first delegatee, which listed them, and enter that of the second
C18_Witness ==
  /\ Completed("delegate")
  /\ last.args.key \in Accounts
  /\ get_delegate(pre, last.args.caller) \in Accounts \ {last.args.key}
  /\ Held(st, last.args.caller) # {}
  /\ Held(st, last.args.caller)
       \subseteq Listed(LatestCheckpoint(pre, get_delegate(pre, last.args.caller)))
  /\ Listed(LatestCheckpoint(st, get_delegate(pre, last.args.caller)))
       \cap Held(st, last.args.caller) = {}
  /\ Held(st, last.args.caller)
       \subseteq Listed(LatestCheckpoint(st, last.args.key))

\* the last call was a delegate that moved the caller's positions to an
\* account
DelegationMove ==
  /\ Completed("delegate")
  /\ last.args.key \in Accounts
  /\ get_delegate(pre, last.args.caller) # last.args.key

(***************************************************************************)
(* C20.  For every account the delegate checkpoints form an append-only    *)
(* sequence with non-decreasing timestamps, each checkpoint carrying the   *)
(* time of the operation that wrote it; when a delegation event touches an *)
(* account whose most recent checkpoint already has timestamp = now, that  *)
(* checkpoint is overwritten instead of a new one being appended, so two   *)
(* events at the same time leave one checkpoint for that time.             *)
(***************************************************************************)
C20_CheckpointTimestamps ==
  /\ \A a \in Accounts : \A i \in 1..(get_num_checkpoints(st, a) - 1) :
       get_check_point(st, a, i - 1).timestamp
         <= get_check_point(st, a, i).timestamp
  /\ \A a \in Accounts : \A i \in 0..(get_num_checkpoints(pre, a) - 1) :
       get_check_point(st, a, i) # get_check_point(pre, a, i)
         => i = get_num_checkpoints(pre, a) - 1
  /\ DelegationMove
       => /\ LatestCheckpoint(st, last.args.key).timestamp = now
          /\ \A t \in SampleTimes :
               Cardinality({i \in 0..(get_num_checkpoints(st, last.args.key) - 1) :
                              get_check_point(st, last.args.key, i).timestamp = t})
                 <= 1

(***************************************************************************)
(* C19.  Delegate set bound: no delegate checkpoint written by any         *)
(* operation (create, merge/burn, delegate) ever lists more than 1024      *)
(* position ids; a delegation move whose destination set would exceed 1024 *)
(* entries (what the destination listed plus what the owner holds) aborts  *)
(* with no state change.                                                   *)
(***************************************************************************)
C19_DelegateSetBound ==
  /\ \A k \in DOMAIN st.checkpoints :
       Len(st.checkpoints[k].token_ids) <= MAX_DELEGATES
  /\ (/\ last.op = "delegate"
      /\ last.args.key \in Accounts
      /\ get_delegate(pre, last.args.caller) # last.args.key
      /\ Len(LatestCheckpoint(pre, last.args.key).token_ids)
           + balance_of(pre, last.args.caller) > MAX_DELEGATES)
       => ~last.ok /\ last.err = "TooManyTokenIds" /\ st = pre

\* a checkpoint lists exactly 1024 position ids, and a delegation that would
\* add one more to it was rejected
C19_Witness ==
  /\ last.op = "delegate"
  /\ ~last.ok
  /\ last.err = "TooManyTokenIds"
  /\ Len(LatestCheckpoint(st, last.args.key).token_ids) = MAX_DELEGATES
  /\ balance_of(st, last.args.caller) = 1
  /\ st = pre

(***************************************************************************)
(* C21.  Binary search correctness: over a global history whose block      *)
(* numbers do not decrease with the epoch, and for a block b at or after   *)
(* the block of point 0, _find_block_epoch(b, max_epoch) returns the       *)
(* greatest epoch e <= max_epoch whose point has blk <= b: every later     *)
(* epoch up to max_epoch has a greater block, and e is max_epoch when b is *)
(* at or after the block of that point.                                    *)
(***************************************************************************)
C21_FindBlockEpoch ==
  (last.op = "_find_block_epoch" /\ last.args.block >= get_point(st, 0).blk) =>
    /\ last.result \in 0..last.args.max_epoch
    /\ get_point(st, last.result).blk <= last.args.block
    /\ \A e \in (last.result + 1)..last.args.max_epoch :
         get_point(st, e).blk > last.args.block
    /\ get_point(st, last.args.max_epoch).blk <= last.args.block
         => last.result = last.args.max_epoch

\* the search ended strictly inside the history, between two epochs with
\* different blocks and after two epochs with the same block
C21_Witness ==
  /\ last.op = "_find_block_epoch"
  /\ last.args.max_epoch = MaxEpochs - 1
  /\ last.result = 2
  /\ get_point(st, 1).blk = get_point(st, 2).blk
  /\ get_point(st, 0).blk < get_point(st, 1).blk
  /\ get_point(st, 3).blk > last.args.block

(***************************************************************************)
(* C22.  get_past_votes_index(account, timestamp) returns the index of the *)
(* latest checkpoint of the account whose timestamp is at or before the    *)
(* given timestamp, and 0 when the account has no checkpoint or its        *)
(* earliest checkpoint is after the timestamp.                             *)
(***************************************************************************)
\* the checkpoints of account a at or before time t
AtOrBefore(s, a, t) ==
  {i \in 0..(get_num_checkpoints(s, a) - 1) :
     get_check_point(s, a, i).timestamp <= t}

C22_PastVotesIndex ==
  last.op = "get_past_votes_index" =>
    With(AtOrBefore(st, last.args.address, last.args.timestamp), LAMBDA S :
      IF S = {} THEN last.result = 0
      ELSE last.result \in S /\ \A i \in S : i <= last.result)

\* the loop ran: the answer is neither the most recent checkpoint nor the
\* first, and the timestamp falls between two checkpoints
C22_Witness ==
  /\ last.op = "get_past_votes_index"
  /\ get_num_checkpoints(st, last.args.address) = MaxCheckpoints
  /\ last.result = 2
  /\ get_check_point(st, last.args.address, 2).timestamp < last.args.timestamp
  /\ get_check_point(st, last.args.address, 3).timestamp > last.args.timestamp

(***************************************************************************)
(* C23.  The query entry points change no store, and a query repeated with *)
(* the same arguments and no mutation in between returns what it returned  *)
(* the first time.                                                         *)
(***************************************************************************)
C23_QueriesArePure ==
  last.op \in Queries =>
    /\ st = pre
    /\ Outcome(QueryHandler(last.op, st, last.args, now)) = last.result
    /\ QueryHandler(last.op, st, last.args, now).st = st

\* a total-supply query was answered with a non-zero supply at a time for
\* which the latest global point is not the current one
C23_Witness ==
  /\ last.op = "ve_total_supply"
  /\ last.ok
  /\ last.result > 0
  /\ get_point(st, st.epoch).ts < now

(***************************************************************************)
(* C24.  In every reachable state the lock end of every position is 0 (no  *)
(* lock) or an exact multiple of WEEK, whatever sequence of create,        *)
(* deposit, increase-amount, increase-unlock-time and merge led there.     *)
(***************************************************************************)
C24_EndsAreWeekAligned ==
  \A tid \in Positions(st) :
    get_locked_balance(st, tid).end = 0
      \/ get_locked_balance(st, tid).end % WEEK = 0

\* a merge in the middle of a week: the source has no lock left and the
\* target ends at a week boundary
C24_Witness ==
  /\ Completed("merge")
  /\ now % WEEK # 0
  /\ get_locked_balance(st, last.args.tid2).end = 0
  /\ get_locked_balance(st, last.args.tid).end > now
  /\ get_locked_balance(st, last.args.tid).end % WEEK = 0

(***************************************************************************)
(* C25.  The lock end of a position after an operation (create,            *)
(* deposit_for, increase_amount, increase_unlock_time, merge as source or  *)
(* as target) is greater than or equal to its end before: end never        *)
(* decreases.                                                              *)
(***************************************************************************)
\* the last step was a call that succeeded, and no other call ran inside it
Stepped == last.ok /\ last.op \in Ops /\ ~last.reentered

EndKept(tid) == get_locked_balance(st, tid).end >= get_locked_balance(pre, tid).end

C25_EndNeverDecreases ==
  Stepped => \A tid \in Positions(pre) : EndKept(tid)

\* C25 as amended: the end of every position but the source of a merge is
\* greater than or equal to its end before; the source of a merge is left
\* with no lock
C25_EndNeverDecreasesButMergeSource ==
  Stepped =>
    \A tid \in Positions(pre) :
      IF last.op = "merge" /\ tid = last.args.tid2
      THEN get_locked_balance(st, tid) = LockedBalanceDefault
      ELSE EndKept(tid)

\* a merge raised the end of its target to the later end of its source
C25_Witness ==
  /\ Completed("merge")
  /\ get_locked_balance(pre, last.args.tid).end > now
  /\ get_locked_balance(st, last.args.tid).end
       > get_locked_balance(pre, last.args.tid).end
  /\ get_locked_balance(st, last.args.tid).end
       = get_locked_balance(pre, last.args.tid2).end

(***************************************************************************)
(* C26.  Decay-replay horizon: one checkpointing call performs at most 255 *)
(* weekly replay steps and appends at most 255 global epochs; when more    *)
(* than 255 weekly buckets are unprocessed the call completes without an   *)
(* error and leaves the latest global point at a timestamp earlier than    *)
(* now; and check_point calls repeated later eventually bring the          *)
(* timestamp of the latest global point up to now.                         *)
(***************************************************************************)
\* the week boundaries after the latest global point of s and up to t
Unprocessed(s, t) == t \div WEEK - get_point(s, s.epoch).ts \div WEEK

\* the last step was a call that ran the checkpoint engine
Checkpointed == last.ok /\ last.op \in {"check_point", "create_lock"}

HorizonStep ==
  Checkpointed =>
    /\ st.epoch - pre.epoch <= 255
    /\ (pre.epoch > 0 /\ Unprocessed(pre, now) > 255) =>
         /\ st.epoch = pre.epoch + 255
         /\ get_point(st, st.epoch).ts < now
         /\ get_point(st, st.epoch).ts
              = (get_point(pre, pre.epoch).ts \div WEEK) * WEEK + 255 * WEEK

C26_ReplayHorizon == []HorizonStep /\ (Lagging ~> ~Lagging)

\* a check_point that met more than 255 unprocessed buckets and stopped at
\* the cap
C26_Witness ==
  /\ Completed("check_point")
  /\ pre.epoch > 0
  /\ Unprocessed(pre, now) > 255
  /\ st.epoch = pre.epoch + 255
  /\ Lagging

(***************************************************************************)
(* C27.  Slope-change schedule: in every reachable state, for every week   *)
(* bucket W > now, the scheduled slope delta at W is minus the sum of the  *)
(* slopes (amount / MAXTIME) of exactly the positions whose lock ends at   *)
(* W.  A deposit to an unchanged end replaces the position's old           *)
(* contribution by its new one in the same bucket; rescheduling an end     *)
(* removes the old contribution from the old bucket and adds the new one   *)
(* to the new bucket.                                                      *)
(***************************************************************************)
\* the slope of a lock
SlopeOf(lk) == lk.amount \div MAXTIME

\* the sum of the slopes of the positions of s whose lock ends at W
SlopeEndingAt(s, W) ==
  SumOver({tid \in Positions(s) : get_locked_balance(s, tid).end = W},
          [tid \in Positions(s) |-> SlopeOf(get_locked_balance(s, tid))])

\* the buckets that hold a delta or at which a lock ends
Buckets(s) ==
  DOMAIN s.slope_changes \cup {get_locked_balance(s, tid).end : tid \in Positions(s)}

ScheduleMatchesLocks ==
  \A W \in Buckets(st) :
    W > now => get_slope_changes(st, W) = - SlopeEndingAt(st, W)

\* a deposit into a live lock, alone in its deploy: the bucket of its end
\* exchanges the old slope for the new one
DepositReplaces ==
  (Stepped /\ last.op \in {"deposit_for", "increase_amount", "increase_amount_for"}) =>
    With(get_locked_balance(pre, last.args.tid), LAMBDA old :
    With(get_locked_balance(st, last.args.tid), LAMBDA new :
      /\ new.end = old.end
      /\ get_slope_changes(st, old.end)
           = get_slope_changes(pre, old.end) + SlopeOf(old) - SlopeOf(new)))

\* an extension, alone in its deploy: the old bucket loses the slope and the
\* new bucket gains it
ExtensionMoves ==
  (Stepped /\ last.op = "increase_unlock_time") =>
    With(get_locked_balance(pre, last.args.tid), LAMBDA old :
    With(get_locked_balance(st, last.args.tid), LAMBDA new :
      /\ new.end > old.end
      /\ get_slope_changes(st, old.end)
           = get_slope_changes(pre, old.end) + SlopeOf(old)
      /\ get_slope_changes(st, new.end)
           = get_slope_changes(pre, new.end) - SlopeOf(new)))

C27_SlopeSchedule == ScheduleMatchesLocks /\ DepositReplaces /\ ExtensionMoves

\* after an extension, two positions with a slope end in two different
\* buckets, one of them the bucket the extension moved to
C27_Witness ==
  /\ Completed("increase_unlock_time")
  /\ get_slope_changes(st, get_locked_balance(st, last.args.tid).end) < 0
  /\ \E tid \in Positions(st) :
       /\ get_locked_balance(st, tid).end > now
       /\ get_locked_balance(st, tid).end # get_locked_balance(st, last.args.tid).end
       /\ get_slope_changes(st, get_locked_balance(st, tid).end) < 0

(***************************************************************************)
(* C28.  After any checkpointing call at time now, with at most 255 weeks  *)
(* between consecutive checkpoints, the slope of the latest global point   *)
(* is the sum of the slopes of the positions whose lock end is > now:      *)
(* every scheduled delta of a bucket <= now has been applied once and no   *)
(* delta of a bucket > now has been applied.                               *)
(***************************************************************************)
\* the sum of the slopes of the positions of s whose lock ends after t
LiveSlope(s, t) ==
  SumOver({tid \in Positions(s) : get_locked_balance(s, tid).end > t},
          [tid \in Positions(s) |-> SlopeOf(get_locked_balance(s, tid))])

\* the last step was a call that ran the checkpoint engine and did not stop
\* at the cap of its loop
CheckpointedInReach ==
  /\ last.ok
  /\ last.op \in Ops \ {"delegate"}
  /\ get_point(st, st.epoch).ts = now

C28_GlobalSlope ==
  CheckpointedInReach => get_point(st, st.epoch).slope = LiveSlope(st, now)

\* a checkpoint taken after one lock expired and while another is live: the
\* delta of the expired lock's bucket has been applied, the other has not
C28_Witness ==
  /\ Completed("check_point")
  /\ \E tid \in Positions(st) :
       /\ get_locked_balance(st, tid).end <= now
       /\ get_locked_balance(st, tid).end > get_point(pre, pre.epoch).ts
       /\ SlopeOf(get_locked_balance(st, tid)) > 0
  /\ LiveSlope(st, now) > 0
  /\ get_point(st, st.epoch).slope < get_point(pre, pre.epoch).slope

(***************************************************************************)
(* C29.  The total-supply query steps as the checkpoint engine does: for   *)
(* any time t at or after the timestamp of the latest global point, one or *)
(* several week boundaries later included, the total-supply query at t     *)
(* returns the bias of the global point that check_point, called at time   *)
(* t, would record.                                                        *)
(***************************************************************************)
\* the bias of the global point a check_point at time t would record
CheckpointedBias(s, t) ==
  With(_check_point(s, 0, LockedBalanceDefault, LockedBalanceDefault, t),
       LAMBDA s1 : get_point(s1, s1.epoch).bias)

C29_SupplyAtMatchesCheckpoint ==
  \A t \in SampleTimes :
    t >= get_point(st, st.epoch).ts =>
      _total_supply_at_t(st, t) = CheckpointedBias(st, t)

(***************************************************************************)
(* C30.  Position ids are never reused: over any sequence of creates and   *)
(* merges, every successful create allocates an id that differs from every *)
(* id allocated earlier, the ids of positions burned by a merge included,  *)
(* so that a new position never starts with the per-position epoch or      *)
(* history of another; and a create with valid arguments is never rejected *)
(* because its id is already in use.                                       *)
(***************************************************************************)
\* a successful create took an id that no position ever had, with no
\* per-position epoch recorded for it
CreatedIdIsFresh ==
  (last.op \in CreateOps /\ last.ok) =>
    /\ CreatedId \notin Positions(pre)
    /\ Get(pre.user_point_epoch, CreatedId, 0) = 0

\* no valid create is rejected for its id
IdNeverTaken ==
  (TopLevelCreate /\ ValidCreate /\ ~last.ok) => last.err # "TokenIdAlreadyExists"

C30_IdsNeverReused == CreatedIdIsFresh /\ IdNeverTaken

(***************************************************************************)
(* C31.  Per-position history isolation: distinct (position id,            *)
(* per-position epoch) pairs address distinct history entries, so that a   *)
(* lock-affecting operation on one position never changes a point recorded *)
(* in the history of another position, and a query for one position never  *)
(* reads a point recorded for another.                                     *)
(***************************************************************************)
\* the (position, epoch) pairs at which a point has been recorded
HistoryPairs(s) ==
  {pr \in Positions(s) \X (1..12) : pr[2] <= Get(s.user_point_epoch, pr[1], 0)}

DistinctEntries ==
  \A p \in HistoryPairs(st) : \A q \in HistoryPairs(st) :
    p # q => UserPointKey(p[1], p[2]) # UserPointKey(q[1], q[2])

\* the points recorded for the other positions are as they were
OthersUntouched ==
  (last.op = "deposit_for" /\ last.ok) =>
    \A tid \in Positions(pre) \ {last.args.tid} :
      \A e \in 1..Get(pre.user_point_epoch, tid, 0) :
        get_user_point(st, tid, e) = get_user_point(pre, tid, e)

C31_HistoryIsolation == DistinctEntries /\ OthersUntouched

(***************************************************************************)
(* C32.  Delegation consistency: after any sequence of create, merge and   *)
(* delegate operations, every existing (not burned) position id appears    *)
(* exactly once in the most recent checkpoint of exactly one account, the  *)
(* current delegate of the position's owner (the owner itself if unset),   *)
(* and no burned position id appears in any account's most recent          *)
(* checkpoint.                                                             *)
(***************************************************************************)
\* how many times the most recent checkpoint of an account lists an id
TimesListed(s, a, tid) ==
  Cardinality({i \in 1..Len(LatestCheckpoint(s, a).token_ids) :
                 LatestCheckpoint(s, a).token_ids[i] = tid})

C32_DelegationConsistency ==
  (last.ok /\ last.stage = "done" /\ ~last.reentered)
    => /\ \A tid \in 1..(MaxPositions + 1) : \A a \in Accounts :
            owner_of(st, tid) # Null
              => TimesListed(st, a, tid)
                   = IF a = _delegates(st, owner_of(st, tid)) THEN 1 ELSE 0
       /\ \A a \in Accounts : \A tid \in Listed(LatestCheckpoint(st, a)) :
            owner_of(st, tid) # Null

(***************************************************************************)
(* C33.  In every reachable state the stored total locked supply           *)
(* (VE_SUPPLY) equals the sum of the amounts of all positions' locks,      *)
(* after any sequence of create, deposit, increase-amount,                 *)
(* increase-unlock-time and merge operations.                              *)
(***************************************************************************)
SumLocked(s) ==
  SumOver(Positions(s), [tid \in Positions(s) |-> get_locked_balance(s, tid).amount])

C33_SupplyIsSumOfLocks == last.ok => st.ve_supply = SumLocked(st)

\* the same, for the calls other than merge
SupplyFollowsLocks ==
  (last.ok /\ last.op # "merge")
    => st.ve_supply - pre.ve_supply = SumLocked(st) - SumLocked(pre)

(***************************************************************************)
(* C34.  Past queries are stable: once time t has passed, later lock       *)
(* operations on a position (deposit, increase-amount,                     *)
(* increase-unlock-time, merge) do not change the value returned for that  *)
(* past time t by balance_of_nft_at(position, t) or by                     *)
(* get_past_votes(account, t).                                             *)
(***************************************************************************)
LockChanges ==
  {"deposit_for", "increase_amount", "increase_amount_for",
   "increase_unlock_time", "merge"}

\* the sampled times that have passed and at which the position had
\* already recorded its latest point before the call
PastTimes(tid) ==
  {t \in SampleTimes :
     /\ t < now
     /\ Get(pre.user_point_epoch, tid, 0) > 0
     /\ get_user_point(pre, tid, Get(pre.user_point_epoch, tid, 0)).ts <= t}

C34_PastQueriesStable ==
  (Stepped /\ last.op \in LockChanges)
    => /\ \A tid \in Positions(pre) : \A t \in PastTimes(tid) :
            balance_of_nft_at(st, tid, t).result
              = balance_of_nft_at(pre, tid, t).result
       /\ \A a \in Accounts : \A t \in {u \in SampleTimes : u < now} :
            get_past_votes(st, a, t) = get_past_votes(pre, a, t)

(***************************************************************************)
(* C35.  Voting power never exceeds locked value: for every position and   *)
(* every time t at or after the time of its latest lock change,            *)
(* balanceAt(position, t) <= the position's locked amount, after any       *)
(* sequence of operations.                                                 *)
(***************************************************************************)
\* the time of the latest lock change of a position: the call that made it
\* recorded a point with that time at the position's latest epoch
LatestChange(s, tid) ==
  get_user_point(s, tid, Get(s.user_point_epoch, tid, 0)).ts

C35_PowerWithinLockedValue ==
  last.ok
    => \A tid \in Positions(st) :
         \A t \in {u \in SampleTimes : u >= LatestChange(st, tid)} :
           _balance_of_nft(st, tid, t) <= get_locked_balance(st, tid).amount

(***************************************************************************)
(* C36.  State is committed before the external call: in every deposit     *)
(* path the lock store, the global and per-position history, the epoch     *)
(* counters and the slope-change schedule are all updated before the       *)
(* external asset transfer is invoked, so a call made while the transfer   *)
(* is running observes the new lock together with a history that reflects  *)
(* it, and the return of the transfer changes none of these stores.        *)
(***************************************************************************)
\* a deposit path has reached transfer_from and nothing has run since
AtTransfer == last.ok /\ last.stage = "transfer"

\* the position the suspended call deposits into
DepositTarget == IF last.op \in CreateOps THEN CreatedId ELSE last.args.tid

\* the stores the claim names
LockStores(s) ==
  <<s.locked, s.point_history, s.epoch, s.user_point_epoch,
    s.user_point_history, s.slope_changes>>

CommittedAtTransfer ==
  AtTransfer =>
    With(get_locked_balance(pre, DepositTarget), LAMBDA old :
    With(get_locked_balance(st, DepositTarget), LAMBDA new :
      /\ new.amount = old.amount + last.args.amount
      /\ new.end = IF last.op \in CreateOps THEN CreateEnd ELSE old.end
      /\ Get(st.user_point_epoch, DepositTarget, 0)
           = Get(pre.user_point_epoch, DepositTarget, 0) + 1
      /\ get_user_point(st, DepositTarget, Get(st.user_point_epoch, DepositTarget, 0))
           = [LockPoint(new, now) EXCEPT !.ts = now, !.blk = current_block_number]
      /\ st.epoch > pre.epoch
      /\ get_point(st, st.epoch).ts = now
      /\ get_point(st, st.epoch).slope = LiveSlope(st, now)
      /\ ScheduleMatchesLocks
      /\ balance_of_nft(st, DepositTarget, now).result = LockPoint(new, now).bias
      /\ locked_end(st, DepositTarget).result = new.end
      /\ st.custody = pre.custody))

\* the return of transfer_from
TransferReturned ==
  call.phase = "in_transfer" /\ call'.phase = "idle" /\ last'.ok

C36_CommittedBeforeTransfer ==
  /\ []CommittedAtTransfer
  /\ [][TransferReturned => LockStores(st') = LockStores(st)]_vars

\* a top-up waiting in its transfer: the position is at its second epoch and
\* the asset has not arrived
C36_Witness ==
  /\ AtTransfer
  /\ last.op \in {"deposit_for", "increase_amount"}
  /\ Get(st.user_point_epoch, last.args.tid, 0) = 2
  /\ get_locked_balance(st, last.args.tid).amount = 2 * BigAmount
  /\ st.custody = BigAmount

(***************************************************************************)
(* C37.  In every reachable state the global epoch counter equals the      *)
(* index of the most recently recorded global point and every index        *)
(* 0..epoch holds a recorded point; the counter never decreases, changes   *)
(* only inside a checkpoint, and grows by at least 1 on every checkpoint   *)
(* call.                                                                   *)
(***************************************************************************)
\* the entry points that take a checkpoint, and how many each takes
Checkpointing == Ops \ {"delegate"}

CheckpointsTaken(op) == IF op = "merge" THEN 2 ELSE 1

C37_EpochCounter ==
  /\ DOMAIN st.point_history = 0..st.epoch
  /\ st.epoch >= pre.epoch
  /\ (last.ok /\ last.op \in Checkpointing)
       => st.epoch >= pre.epoch + CheckpointsTaken(last.op)
  /\ (~last.ok \/ last.op \notin Checkpointing) => st.epoch = pre.epoch

\* a checkpoint taken a week boundary and a half after the previous one adds
\* two epochs
C37_Witness ==
  /\ Completed("check_point")
  /\ pre.epoch >= 1
  /\ st.epoch = pre.epoch + 2
  /\ get_point(st, st.epoch - 1).ts = (now \div WEEK) * WEEK

(***************************************************************************)
(* C38.  Global history is append-only: once a call has completed with a   *)
(* point recorded at global epoch e, no later call changes the point       *)
(* stored at epoch e; recorded timestamps and block numbers are            *)
(* non-decreasing in the epoch.                                            *)
(***************************************************************************)
RecordedKept ==
  \A e \in 0..pre.epoch : get_point(st, e) = get_point(pre, e)

InEpochOrder ==
  \A e \in 1..st.epoch :
    /\ get_point(st, e - 1).ts <= get_point(st, e).ts
    /\ get_point(st, e - 1).blk <= get_point(st, e).blk

C38_GlobalHistoryAppendOnly == RecordedKept /\ InEpochOrder

\* a call that found at least two recorded points, two of them with the same
\* time, and added a point with a later time
C38_Witness ==
  /\ last.ok
  /\ last.op \in Checkpointing
  /\ last.stage = "done"
  /\ pre.epoch >= 2
  /\ get_point(pre, pre.epoch - 1).ts = get_point(pre, pre.epoch).ts
  /\ get_point(st, st.epoch).ts > get_point(pre, pre.epoch).ts
  /\ get_point(st, st.epoch).bias # get_point(pre, pre.epoch).bias

(***************************************************************************)
(* C39.  Every lock-affecting operation on a position (create, deposit,    *)
(* increase-amount, increase-unlock-time, merge as source, merge as        *)
(* target) advances that position's per-position epoch by exactly one and  *)
(* records at the new per-position epoch the point {bias = new_bias,       *)
(* slope = new_slope, timestamp = now, block = current block}; a pure      *)
(* global checkpoint (sentinel position 0) changes no position's epoch,    *)
(* history, lock or schedule entry.                                        *)
(***************************************************************************)
\* the position is one epoch further and the point of its new lock is the
\* one recorded there
Advanced(tid) ==
  /\ Get(st.user_point_epoch, tid, 0) = Get(pre.user_point_epoch, tid, 0) + 1
  /\ get_user_point(st, tid, Get(st.user_point_epoch, tid, 0))
       = [LockPoint(get_locked_balance(st, tid), now)
            EXCEPT !.ts = now, !.blk = current_block_number]

C39_PositionEpochStep ==
  /\ (Stepped /\ last.op \in (CreateOps \cup LockChanges) \ {"merge"})
       => Advanced(DepositTarget)
  /\ (Stepped /\ last.op = "merge")
       => Advanced(last.args.tid2) /\ Advanced(last.args.tid)
  /\ (last.ok /\ last.op = "check_point")
       => /\ st.user_point_epoch = pre.user_point_epoch
          /\ st.user_point_history = pre.user_point_history
          /\ st.locked = pre.locked
          /\ st.slope_changes = pre.slope_changes

(***************************************************************************)
(* C40.  Saturating decay: every point recorded in the global history has  *)
(* bias >= 0 and slope >= 0, every per-position point has bias >= 0 and    *)
(* slope >= 0, and every balance or supply query returns a value >= 0; a   *)
(* negative intermediate result is clamped to zero and never aborts the    *)
(* call.                                                                   *)
(***************************************************************************)
NonNegative(p) == p.bias >= 0 /\ p.slope >= 0

BalanceQueries ==
  {"balance_of_nft", "balance_of_nft_at", "balance_of_at_nft", "ve_total_supply",
   "total_supply_at_t", "total_supply_at", "get_votes", "get_past_votes"}

\* a balance or supply query is answered, with a value that is not negative,
\* unless it names a block that is yet to come
Answered ==
  \/ last.ok /\ last.result >= 0
  \/ /\ ~last.ok
     /\ last.err = "InvalidBlock"
     /\ last.args.block > current_block_number

C40_SaturatingDecay ==
  /\ \A e \in DOMAIN st.point_history : NonNegative(st.point_history[e])
  /\ \A k \in DOMAIN st.user_point_history : NonNegative(st.user_point_history[k])
  /\ last.op \in BalanceQueries => Answered

\* a balance asked for a time after the lock's end: the projection is below
\* zero and the answer is zero
C40_Witness ==
  /\ last.op = "balance_of_nft_at"
  /\ last.ok
  /\ last.result = 0
  /\ _balance_of_nft_unclamped(st, last.args.token_id, last.args.t) < 0

====
